---- MODULE Spec2Model ----
(***************************************************************************)
(* Wake-cycle controller of the Seeed EE02 e-paper frame firmware          *)
(* (main.cpp, display.cpp, config_manager.cpp).                            *)
(*                                                                         *)
(* Conventions                                                             *)
(*  - C strings are sequences of one-character strings; HTTP bodies and    *)
(*    header values are text and carry no NUL character.                   *)
(*  - uint32_t values are kept as their 32-bit pattern read as a signed    *)
(*    integer (UINT32_MAX is -1); ULess / UMax compare them as unsigned.   *)
(*  - the firmware is one thread; pc is its position.  A blocking loop     *)
(*    (WiFi connect, busy-pin wait, download) is one action per iteration. *)
(***************************************************************************)
EXTENDS Integers, Sequences, FiniteSets, TLC

(***************************************************************************)
(* Bounds of the model                                                     *)
(***************************************************************************)
\* number of boots explored (bootCount is an unbounded int in the code)
MaxBoots == 2
\* iterations of a polling loop before its timeout expires
\* (WIFI_TIMEOUT_MS / 500, timeoutMs / 10 in the code)
MaxPolls == 1
\* half the width of the panel in pixels (800 on the device): a byte holds
\* two pixels of a row
HalfWidth == 1
\* a quarter of the height of the panel in pixels (300 on the device): each
\* controller takes half of the rows, two rows to a byte
QuarterHeight == 1

(***************************************************************************)
(* Program constants                                                       *)
(***************************************************************************)
\* config.h: the panel is DISPLAY_WIDTH x DISPLAY_HEIGHT pixels (1600 x 1200
\* on the device), four bits to a pixel
DISPLAY_WIDTH == 2 * HalfWidth
DISPLAY_HEIGHT == 4 * QuarterHeight
BUFFER_SIZE == (DISPLAY_WIDTH * DISPLAY_HEIGHT) \div 2
MIN_SLEEP_SECONDS == 60
VALID_UNIX_TIME == 1704067200
HTTP_CODE_OK == 200
HASH_LEN == 16
DEFAULT_SERVER_PORT == 5000
DEFAULT_SLEEP_MINUTES == 15
DEFAULT_ACTIVE_START_HOUR == 8
DEFAULT_ACTIVE_END_HOUR == 20
DEFAULT_TIMEZONE_OFFSET_MINUTES == 0
DEFAULT_SERVER_HOST == <<"1","9","2",".","1","6","8",".","8","6",".","3","4">>
DEFAULT_IMAGE_ENDPOINT == <<"/","i","m","a","g","e","_","p","a","c","k","e","d">>
UINT32_MAX == -1

(***************************************************************************)
(* Strings                                                                 *)
(***************************************************************************)
EmptyStr == <<>>
Rep(n, c) == [i \in 1..n |-> c]
\* freshness tokens and other bodies the server may send
TokA == Rep(16, "a")
TokB == Rep(16, "b")
\* differs from TokA in the last character only
TokA2 == [i \in 1..16 |-> IF i = 16 THEN "b" ELSE "a"]
\* 15 and 17 characters, both agreeing with TokA on their common prefix
Short15 == Rep(15, "a")
Long17 == Rep(17, "a")

\* strcmp(a, b) == 0 on NUL-free strings
StrEq(a, b) == a = b

\* strncpy(dst, src, n); dst[n] = '\0'  on a NUL-free src
Strncpy(src, n) == IF Len(src) <= n THEN src ELSE SubSeq(src, 1, n)

(***************************************************************************)
(* uint32_t arithmetic on 32-bit patterns                                  *)
(***************************************************************************)
ULess(a, b) == IF (a < 0) = (b < 0) THEN a < b ELSE b < 0
UMax(a, b) == IF ULess(a, b) THEN b ELSE a

\* C++ remainder (truncating towards zero)
CRem(a, b) == IF a >= 0 THEN a % b ELSE 0 - ((0 - a) % b)

(***************************************************************************)
(* ScheduleEngine (main.cpp)                                               *)
(***************************************************************************)
isClockValid(now) == now >= VALID_UNIX_TIME

getLocalSecondsOfDay(utcNow, timezoneOffsetMinutes) ==
    LET localSeconds == utcNow + timezoneOffsetMinutes * 60
        secondsOfDay == CRem(localSeconds, 86400)
    IN  IF secondsOfDay < 0 THEN secondsOfDay + 86400 ELSE secondsOfDay

\* faulty variant: the end of the window is included
isWithinActiveWindowInclusiveEnd(utcNow, startHour, endHour, timezoneOffsetMinutes) ==
    IF startHour = endHour THEN TRUE
    ELSE LET secondsOfDay == getLocalSecondsOfDay(utcNow, timezoneOffsetMinutes)
             startSeconds == startHour * 3600
             endSeconds == endHour * 3600
         IN  IF startHour < endHour
             THEN secondsOfDay >= startSeconds /\ secondsOfDay <= endSeconds
             ELSE secondsOfDay >= startSeconds \/ secondsOfDay <= endSeconds

isWithinActiveWindow(utcNow, startHour, endHour, timezoneOffsetMinutes) ==
    IF startHour = endHour THEN TRUE
    ELSE LET secondsOfDay == getLocalSecondsOfDay(utcNow, timezoneOffsetMinutes)
             startSeconds == startHour * 3600
             endSeconds == endHour * 3600
         IN  IF startHour < endHour
             THEN secondsOfDay >= startSeconds /\ secondsOfDay < endSeconds
             ELSE secondsOfDay >= startSeconds \/ secondsOfDay < endSeconds

\* faulty variant: at the start hour itself the distance is 0
secondsUntilNextActiveWindowZeroAtStart(utcNow, startHour, timezoneOffsetMinutes) ==
    LET secondsOfDay == getLocalSecondsOfDay(utcNow, timezoneOffsetMinutes)
        startSeconds == startHour * 3600
    IN  IF secondsOfDay <= startSeconds
        THEN startSeconds - secondsOfDay
        ELSE (86400 - secondsOfDay) + startSeconds

secondsUntilNextActiveWindow(utcNow, startHour, timezoneOffsetMinutes) ==
    LET secondsOfDay == getLocalSecondsOfDay(utcNow, timezoneOffsetMinutes)
        startSeconds == startHour * 3600
    IN  IF secondsOfDay < startSeconds
        THEN startSeconds - secondsOfDay
        ELSE (86400 - secondsOfDay) + startSeconds

secondsUntilWindowEnd(utcNow, startHour, endHour, timezoneOffsetMinutes) ==
    IF startHour = endHour THEN UINT32_MAX
    ELSE LET secondsOfDay == getLocalSecondsOfDay(utcNow, timezoneOffsetMinutes)
             startSeconds == startHour * 3600
             endSeconds == endHour * 3600
         IN  IF startHour < endHour
             THEN endSeconds - secondsOfDay
             ELSE IF secondsOfDay >= startSeconds
                  THEN (86400 - secondsOfDay) + endSeconds
                  ELSE endSeconds - secondsOfDay

\* faulty variant: a refresh landing exactly on the window end is kept
calculateSleepSecondsUpToEnd(c, now) ==
    LET refreshSeconds == c.sleepMinutes * 60
        activeStart == c.activeStartHour
        activeEnd == c.activeEndHour
        timezoneOffset == c.timezoneOffsetMinutes
        untilWindowEnd == secondsUntilWindowEnd(now, activeStart, activeEnd,
                                                timezoneOffset)
    IN  IF ~isClockValid(now)
        THEN UMax(refreshSeconds, MIN_SLEEP_SECONDS)
        ELSE IF ~isWithinActiveWindow(now, activeStart, activeEnd, timezoneOffset)
        THEN UMax(secondsUntilNextActiveWindow(now, activeStart, timezoneOffset),
                  MIN_SLEEP_SECONDS)
        ELSE IF ULess(refreshSeconds, untilWindowEnd) \/ refreshSeconds = untilWindowEnd
        THEN UMax(refreshSeconds, MIN_SLEEP_SECONDS)
        ELSE UMax(secondsUntilNextActiveWindow(now, activeStart, timezoneOffset),
                  MIN_SLEEP_SECONDS)

\* faulty variant: the distance to the next window is not floored
calculateSleepSecondsNoFloor(c, now) ==
    LET refreshSeconds == c.sleepMinutes * 60
        activeStart == c.activeStartHour
        activeEnd == c.activeEndHour
        timezoneOffset == c.timezoneOffsetMinutes
    IN  IF ~isClockValid(now)
        THEN UMax(refreshSeconds, MIN_SLEEP_SECONDS)
        ELSE IF ~isWithinActiveWindow(now, activeStart, activeEnd, timezoneOffset)
        THEN secondsUntilNextActiveWindow(now, activeStart, timezoneOffset)
        ELSE IF ULess(refreshSeconds,
                      secondsUntilWindowEnd(now, activeStart, activeEnd, timezoneOffset))
        THEN UMax(refreshSeconds, MIN_SLEEP_SECONDS)
        ELSE secondsUntilNextActiveWindow(now, activeStart, timezoneOffset)

\* faulty variant: inside the window the refresh interval is always used
calculateSleepSecondsIgnoresWindowEnd(c, now) ==
    LET refreshSeconds == c.sleepMinutes * 60
        activeStart == c.activeStartHour
        activeEnd == c.activeEndHour
        timezoneOffset == c.timezoneOffsetMinutes
    IN  IF ~isClockValid(now)
        THEN UMax(refreshSeconds, MIN_SLEEP_SECONDS)
        ELSE IF ~isWithinActiveWindow(now, activeStart, activeEnd, timezoneOffset)
        THEN UMax(secondsUntilNextActiveWindow(now, activeStart, timezoneOffset),
                  MIN_SLEEP_SECONDS)
        ELSE UMax(refreshSeconds, MIN_SLEEP_SECONDS)

\* calculateSleepSeconds() with the configuration and the clock as arguments
calculateSleepSeconds(c, now) ==
    LET refreshSeconds == c.sleepMinutes * 60
        activeStart == c.activeStartHour
        activeEnd == c.activeEndHour
        timezoneOffset == c.timezoneOffsetMinutes
    IN  IF ~isClockValid(now)
        THEN UMax(refreshSeconds, MIN_SLEEP_SECONDS)
        ELSE IF ~isWithinActiveWindow(now, activeStart, activeEnd, timezoneOffset)
        THEN UMax(secondsUntilNextActiveWindow(now, activeStart, timezoneOffset),
                  MIN_SLEEP_SECONDS)
        ELSE IF ULess(refreshSeconds,
                      secondsUntilWindowEnd(now, activeStart, activeEnd, timezoneOffset))
        THEN UMax(refreshSeconds, MIN_SLEEP_SECONDS)
        ELSE UMax(secondsUntilNextActiveWindow(now, activeStart, timezoneOffset),
                  MIN_SLEEP_SECONDS)

(***************************************************************************)
(* DeviceConfigStore (config_manager.h / config_manager.cpp)               *)
(***************************************************************************)
MAX_HOST_LENGTH == 128
MAX_ENDPOINT_LENGTH == 64

\* ConfigManager::ConfigManager(): the built-in defaults
DefaultConfig ==
    [serverHost |-> DEFAULT_SERVER_HOST,
     serverPort |-> DEFAULT_SERVER_PORT,
     imageEndpoint |-> DEFAULT_IMAGE_ENDPOINT,
     sleepMinutes |-> DEFAULT_SLEEP_MINUTES,
     activeStartHour |-> DEFAULT_ACTIVE_START_HOUR,
     activeEndHour |-> DEFAULT_ACTIVE_END_HOUR,
     timezoneOffsetMinutes |-> DEFAULT_TIMEZONE_OFFSET_MINUTES]

\* the NVS namespace before the firmware has written it
EmptyNVS == [written |-> FALSE, data |-> DefaultConfig]

\* ConfigManager::loadFromNVS() of config_manager.cpp: the four keys "host",
\* "port", "endpoint" and "sleep_min", each read with its default
loadFromNVS(c, store) ==
    [c EXCEPT
       !.serverHost = IF store.written THEN store.data.serverHost
                      ELSE DEFAULT_SERVER_HOST,
       !.serverPort = IF store.written THEN store.data.serverPort
                      ELSE DEFAULT_SERVER_PORT,
       !.imageEndpoint = IF store.written THEN store.data.imageEndpoint
                         ELSE DEFAULT_IMAGE_ENDPOINT,
       !.sleepMinutes = IF store.written THEN store.data.sleepMinutes
                        ELSE DEFAULT_SLEEP_MINUTES]

\* the schedule members declared in config_manager.h, read the same way
loadScheduleFromNVS(c, store) ==
    [c EXCEPT
       !.activeStartHour = IF store.written THEN store.data.activeStartHour
                           ELSE DEFAULT_ACTIVE_START_HOUR,
       !.activeEndHour = IF store.written THEN store.data.activeEndHour
                         ELSE DEFAULT_ACTIVE_END_HOUR,
       !.timezoneOffsetMinutes =
           IF store.written THEN store.data.timezoneOffsetMinutes
           ELSE DEFAULT_TIMEZONE_OFFSET_MINUTES]

\* ConfigManager::begin(): the configuration in memory after loading
configBegin(store) == loadScheduleFromNVS(loadFromNVS(DefaultConfig, store), store)

\* ConfigManager::saveToNVS() of config_manager.cpp: the four keys written
saveToNVS(store, c) ==
    [written |-> TRUE,
     data |-> [store.data EXCEPT !.serverHost = c.serverHost,
                                 !.serverPort = c.serverPort,
                                 !.imageEndpoint = c.imageEndpoint,
                                 !.sleepMinutes = c.sleepMinutes]]

\* the schedule members declared in config_manager.h, written the same way
saveScheduleToNVS(store, c) ==
    [written |-> TRUE,
     data |-> [store.data EXCEPT
                 !.activeStartHour = c.activeStartHour,
                 !.activeEndHour = c.activeEndHour,
                 !.timezoneOffsetMinutes = c.timezoneOffsetMinutes]]

\* saveToNVS() of the store with all seven members
saveAllToNVS(store, c) == saveScheduleToNVS(saveToNVS(store, c), c)

\* ConfigManager::setServerHost
setServerHost(c, store, host) ==
    IF Len(host) > 0 /\ Len(host) < MAX_HOST_LENGTH
    THEN LET new == [c EXCEPT !.serverHost = host]
         IN  [cfg |-> new, nvs |-> saveToNVS(store, new)]
    ELSE [cfg |-> c, nvs |-> store]

\* ConfigManager::setServerPort
setServerPort(c, store, port) ==
    IF port > 0
    THEN LET new == [c EXCEPT !.serverPort = port]
         IN  [cfg |-> new, nvs |-> saveToNVS(store, new)]
    ELSE [cfg |-> c, nvs |-> store]

\* ConfigManager::setImageEndpoint
setImageEndpoint(c, store, endpoint) ==
    IF Len(endpoint) > 0 /\ Len(endpoint) < MAX_ENDPOINT_LENGTH
    THEN LET new == [c EXCEPT !.imageEndpoint =
                         IF endpoint[1] # "/" THEN <<"/">> \o endpoint
                         ELSE endpoint]
         IN  [cfg |-> new, nvs |-> saveToNVS(store, new)]
    ELSE [cfg |-> c, nvs |-> store]

\* faulty variant: the upper bound of the interval is not checked
setSleepMinutesNoUpperBound(c, store, minutes) ==
    IF minutes > 0
    THEN LET new == [c EXCEPT !.sleepMinutes = minutes]
         IN  [cfg |-> new, nvs |-> saveToNVS(store, new)]
    ELSE [cfg |-> c, nvs |-> store]

\* faulty variant: the new interval is not saved
setSleepMinutesNoSave(c, store, minutes) ==
    IF minutes > 0 /\ minutes <= 1440
    THEN [cfg |-> [c EXCEPT !.sleepMinutes = minutes], nvs |-> store]
    ELSE [cfg |-> c, nvs |-> store]

\* ConfigManager::setSleepMinutes
setSleepMinutes(c, store, minutes) ==
    IF minutes > 0 /\ minutes <= 1440
    THEN LET new == [c EXCEPT !.sleepMinutes = minutes]
         IN  [cfg |-> new, nvs |-> saveToNVS(store, new)]
    ELSE [cfg |-> c, nvs |-> store]

\* ConfigManager::setActiveStartHour, declared in config_manager.h
setActiveStartHour(c, store, hour) ==
    IF hour >= 0 /\ hour <= 23
    THEN LET new == [c EXCEPT !.activeStartHour = hour]
         IN  [cfg |-> new, nvs |-> saveAllToNVS(store, new)]
    ELSE [cfg |-> c, nvs |-> store]

\* ConfigManager::setActiveEndHour, declared in config_manager.h
setActiveEndHour(c, store, hour) ==
    IF hour >= 0 /\ hour <= 23
    THEN LET new == [c EXCEPT !.activeEndHour = hour]
         IN  [cfg |-> new, nvs |-> saveAllToNVS(store, new)]
    ELSE [cfg |-> c, nvs |-> store]

\* ConfigManager::setTimezoneOffsetMinutes, declared in config_manager.h
setTimezoneOffsetMinutes(c, store, minutes) ==
    IF minutes >= -720 /\ minutes <= 840
    THEN LET new == [c EXCEPT !.timezoneOffsetMinutes = minutes]
         IN  [cfg |-> new, nvs |-> saveAllToNVS(store, new)]
    ELSE [cfg |-> c, nvs |-> store]

\* ConfigManager::resetToDefaults of config_manager.cpp
resetToDefaults(c, store) ==
    LET new == [c EXCEPT !.serverHost = DEFAULT_SERVER_HOST,
                         !.serverPort = DEFAULT_SERVER_PORT,
                         !.imageEndpoint = DEFAULT_IMAGE_ENDPOINT,
                         !.sleepMinutes = DEFAULT_SLEEP_MINUTES]
    IN  [cfg |-> new, nvs |-> saveToNVS(store, new)]

\* ConfigManager::setConfig, the four fields of config_manager.cpp: each
\* field is applied when it passes its own check
setConfigBase(c, host, port, endpoint, sleepMinutes) ==
    LET hostOk == Len(host) > 0 /\ Len(host) < MAX_HOST_LENGTH
        portOk == port > 0
        endpointOk == Len(endpoint) > 0 /\ Len(endpoint) < MAX_ENDPOINT_LENGTH
        sleepOk == sleepMinutes > 0 /\ sleepMinutes <= 1440
    IN  [changed |-> hostOk \/ portOk \/ endpointOk \/ sleepOk,
         cfg |-> [c EXCEPT
                    !.serverHost = IF hostOk THEN host ELSE @,
                    !.serverPort = IF portOk THEN port ELSE @,
                    !.imageEndpoint =
                        IF ~endpointOk THEN @
                        ELSE IF endpoint[1] # "/" THEN <<"/">> \o endpoint
                        ELSE endpoint,
                    !.sleepMinutes = IF sleepOk THEN sleepMinutes ELSE @]]

\* ConfigManager::setConfig(host, port, endpoint, sleepMinutes) of
\* config_manager.cpp: saved when at least one field was applied
setConfig4(c, store, host, port, endpoint, sleepMinutes) ==
    LET base == setConfigBase(c, host, port, endpoint, sleepMinutes)
    IN  [cfg |-> base.cfg,
         nvs |-> IF base.changed THEN saveToNVS(store, base.cfg) ELSE store]

\* ConfigServer::handleSave: the port and the interval are the form's numbers
\* (String::toInt) narrowed to uint16_t; status is the code of the answer
handleSave(c, store, host, portValue, endpoint, sleepValue) ==
    LET port == portValue % 65536
        sleep == sleepValue % 65536
    IN  IF Len(host) > 0 /\ port > 0 /\ Len(endpoint) > 0 /\ sleep > 0
        THEN LET r == setConfig4(c, store, host, port, endpoint, sleep)
             IN  [cfg |-> r.cfg, nvs |-> r.nvs, status |-> 200]
        ELSE [cfg |-> c, nvs |-> store, status |-> 400]

\* the schedule fields of the seven-argument setConfig declared in
\* config_manager.h, each applied when it is within the bounds of the remote
\* override (hours 0..23, offset -720..840), like the other fields
setConfigSchedule(c, activeStartHour, activeEndHour, timezoneOffsetMinutes) ==
    LET startOk == activeStartHour >= 0 /\ activeStartHour <= 23
        endOk == activeEndHour >= 0 /\ activeEndHour <= 23
        tzOk == timezoneOffsetMinutes >= -720 /\ timezoneOffsetMinutes <= 840
    IN  [c EXCEPT
           !.activeStartHour = IF startOk THEN activeStartHour ELSE @,
           !.activeEndHour = IF endOk THEN activeEndHour ELSE @,
           !.timezoneOffsetMinutes = IF tzOk THEN timezoneOffsetMinutes ELSE @]

\* ConfigManager::setConfig(host, port, endpoint, sleepMinutes, start, end, tz):
\* the new in-memory configuration and the new contents of the store
setConfig(c, store, host, port, endpoint, sleepMinutes, activeStartHour, activeEndHour, timezoneOffsetMinutes) ==
    LET base == setConfigBase(c, host, port, endpoint, sleepMinutes)
        new == setConfigSchedule(base.cfg, activeStartHour, activeEndHour,
                                 timezoneOffsetMinutes)
        changed == \/ base.changed
                   \/ activeStartHour >= 0 /\ activeStartHour <= 23
                   \/ activeEndHour >= 0 /\ activeEndHour <= 23
                   \/ timezoneOffsetMinutes >= -720 /\ timezoneOffsetMinutes <= 840
    IN  [cfg |-> new, nvs |-> IF changed THEN saveAllToNVS(store, new) ELSE store]

(***************************************************************************)
(* Remote config/time sync (syncRemoteConfigAndTime)                       *)
(***************************************************************************)
\* a sparse payload: the keys present and their values
Payload(keys, epoch, refresh, start, end, tz) ==
    [keys |-> keys, server_time_epoch |-> epoch,
     refresh_interval_minutes |-> refresh, active_start_hour |-> start,
     active_end_hour |-> end, timezone_offset_minutes |-> tz]

\* faulty variant: the schedule keys are applied before the time key is
\* looked for
syncRemoteConfigAndTimeScheduleFirst(httpCode, parseOk, doc, c, store, now) ==
    IF httpCode # HTTP_CODE_OK \/ ~parseOk
    THEN [ok |-> FALSE, clock |-> now, cfg |-> c, nvs |-> store]
    ELSE
    LET has(k) == k \in doc.keys
        v1 == doc.refresh_interval_minutes
        v2 == doc.active_start_hour
        v3 == doc.active_end_hour
        v4 == doc.timezone_offset_minutes
        ch1 == has("refresh_interval_minutes") /\ v1 > 0 /\ v1 <= 1440
        ch2 == has("active_start_hour") /\ v2 >= 0 /\ v2 <= 23
        ch3 == has("active_end_hour") /\ v3 >= 0 /\ v3 <= 23
        ch4 == has("timezone_offset_minutes") /\ v4 >= -720 /\ v4 <= 840
        applied == setConfig(c, store, c.serverHost, c.serverPort, c.imageEndpoint,
                             IF ch1 THEN v1 ELSE c.sleepMinutes,
                             IF ch2 THEN v2 ELSE c.activeStartHour,
                             IF ch3 THEN v3 ELSE c.activeEndHour,
                             IF ch4 THEN v4 ELSE c.timezoneOffsetMinutes)
    IN  [ok |-> has("server_time_epoch"),
         clock |-> IF has("server_time_epoch") THEN doc.server_time_epoch ELSE now,
         cfg |-> applied.cfg,
         nvs |-> applied.nvs]

\* faulty variant: one out-of-range value discards the whole payload
syncRemoteConfigAndTimeAllOrNothing(httpCode, parseOk, doc, c, store, now) ==
    IF httpCode # HTTP_CODE_OK \/ ~parseOk
       \/ "server_time_epoch" \notin doc.keys
    THEN [ok |-> FALSE, clock |-> now, cfg |-> c, nvs |-> store]
    ELSE
    LET has(k) == k \in doc.keys
        v1 == doc.refresh_interval_minutes
        v2 == doc.active_start_hour
        v3 == doc.active_end_hour
        v4 == doc.timezone_offset_minutes
        ok1 == has("refresh_interval_minutes") => (v1 > 0 /\ v1 <= 1440)
        ok2 == has("active_start_hour") => (v2 >= 0 /\ v2 <= 23)
        ok3 == has("active_end_hour") => (v3 >= 0 /\ v3 <= 23)
        ok4 == has("timezone_offset_minutes") => (v4 >= -720 /\ v4 <= 840)
        applied == setConfig(c, store, c.serverHost, c.serverPort, c.imageEndpoint,
                     IF has("refresh_interval_minutes") THEN v1 ELSE c.sleepMinutes,
                     IF has("active_start_hour") THEN v2 ELSE c.activeStartHour,
                     IF has("active_end_hour") THEN v3 ELSE c.activeEndHour,
                     IF has("timezone_offset_minutes") THEN v4
                     ELSE c.timezoneOffsetMinutes)
        all == ok1 /\ ok2 /\ ok3 /\ ok4
    IN  [ok |-> TRUE,
         clock |-> doc.server_time_epoch,
         cfg |-> IF all THEN applied.cfg ELSE c,
         nvs |-> IF all THEN applied.nvs ELSE store]

\* result of syncRemoteConfigAndTime for one HTTP exchange
syncRemoteConfigAndTime(httpCode, parseOk, doc, c, store, now) ==
    IF httpCode # HTTP_CODE_OK \/ ~parseOk
       \/ "server_time_epoch" \notin doc.keys
    THEN [ok |-> FALSE, clock |-> now, cfg |-> c, nvs |-> store]
    ELSE
    LET has(k) == k \in doc.keys
        v1 == doc.refresh_interval_minutes
        v2 == doc.active_start_hour
        v3 == doc.active_end_hour
        v4 == doc.timezone_offset_minutes
        ch1 == has("refresh_interval_minutes")
               /\ v1 > 0 /\ v1 <= 1440 /\ v1 # c.sleepMinutes
        ch2 == has("active_start_hour")
               /\ v2 >= 0 /\ v2 <= 23 /\ v2 # c.activeStartHour
        ch3 == has("active_end_hour")
               /\ v3 >= 0 /\ v3 <= 23 /\ v3 # c.activeEndHour
        ch4 == has("timezone_offset_minutes")
               /\ v4 >= -720 /\ v4 <= 840 /\ v4 # c.timezoneOffsetMinutes
        refreshMinutes == IF ch1 THEN v1 ELSE c.sleepMinutes
        activeStart == IF ch2 THEN v2 ELSE c.activeStartHour
        activeEnd == IF ch3 THEN v3 ELSE c.activeEndHour
        timezoneOffset == IF ch4 THEN v4 ELSE c.timezoneOffsetMinutes
        scheduleChanged == ch1 \/ ch2 \/ ch3 \/ ch4
        applied == setConfig(c, store, c.serverHost, c.serverPort, c.imageEndpoint,
                             refreshMinutes, activeStart, activeEnd, timezoneOffset)
    IN  [ok |-> TRUE,
         clock |-> doc.server_time_epoch,
         cfg |-> IF scheduleChanged THEN applied.cfg ELSE c,
         nvs |-> IF scheduleChanged THEN applied.nvs ELSE store]

(***************************************************************************)
(* ChangeDetector (checkImageChanged, the commit in fetchAndDisplayImage)  *)
(***************************************************************************)
\* faulty variant: the hash is stored as soon as the server reports a new one
checkImageChangedOptimistic(httpCode, newHash, last, pending) ==
    IF httpCode # HTTP_CODE_OK \/ Len(newHash) # HASH_LEN
    THEN [changed |-> TRUE, last |-> last, pending |-> pending]
    ELSE IF StrEq(newHash, last)
    THEN [changed |-> FALSE, last |-> last, pending |-> EmptyStr]
    ELSE [changed |-> TRUE, last |-> Strncpy(newHash, HASH_LEN), pending |-> pending]

\* faulty variant: the comparison with the stored hash is lost
checkImageChangedAlways(httpCode, newHash, last, pending) ==
    IF httpCode # HTTP_CODE_OK \/ Len(newHash) # HASH_LEN
    THEN [changed |-> TRUE, last |-> last, pending |-> pending]
    ELSE [changed |-> TRUE, last |-> last, pending |-> Strncpy(newHash, HASH_LEN)]

\* faulty variant: the length of the body is not validated
checkImageChangedNoLength(httpCode, newHash, last, pending) ==
    IF httpCode # HTTP_CODE_OK
    THEN [changed |-> TRUE, last |-> last, pending |-> pending]
    ELSE IF StrEq(newHash, last)
    THEN [changed |-> FALSE, last |-> last, pending |-> EmptyStr]
    ELSE [changed |-> TRUE, last |-> last, pending |-> Strncpy(newHash, HASH_LEN)]

\* faulty variant: a failed check is reported as "unchanged"
checkImageChangedFailUnchanged(httpCode, newHash, last, pending) ==
    IF httpCode # HTTP_CODE_OK
    THEN [changed |-> FALSE, last |-> last, pending |-> pending]
    ELSE IF Len(newHash) # HASH_LEN
    THEN [changed |-> TRUE, last |-> last, pending |-> pending]
    ELSE IF StrEq(newHash, last)
    THEN [changed |-> FALSE, last |-> last, pending |-> EmptyStr]
    ELSE [changed |-> TRUE, last |-> last, pending |-> Strncpy(newHash, HASH_LEN)]

\* checkImageChanged(): the return value and the two hash buffers afterwards
checkImageChanged(httpCode, newHash, last, pending) ==
    IF httpCode # HTTP_CODE_OK
    THEN [changed |-> TRUE, last |-> last, pending |-> pending]
    ELSE IF Len(newHash) # HASH_LEN
    THEN [changed |-> TRUE, last |-> last, pending |-> pending]
    ELSE IF StrEq(newHash, last)
    THEN [changed |-> FALSE, last |-> last, pending |-> EmptyStr]
    ELSE [changed |-> TRUE, last |-> last, pending |-> Strncpy(newHash, HASH_LEN)]

\* faulty variant: the staged hash wins over the one of the fetch response
commitHashPendingFirst(responseImageHash, pending, last) ==
    IF pending # EmptyStr
    THEN Strncpy(pending, HASH_LEN)
    ELSE IF Len(responseImageHash) = HASH_LEN
    THEN Strncpy(responseImageHash, HASH_LEN)
    ELSE last

\* lastImageHash after display.refresh() has returned (lines 513-519)
commitHash(responseImageHash, pending, last) ==
    IF Len(responseImageHash) = HASH_LEN
    THEN Strncpy(responseImageHash, HASH_LEN)
    ELSE IF pending # EmptyStr
    THEN Strncpy(pending, HASH_LEN)
    ELSE last

(***************************************************************************)
(* PanelProtocolDriver (display.cpp): the lines to the panel.  A driver    *)
(* function is the sequence of operations it performs on the lines, in the *)
(* order of its statements; Execute plays such a sequence on the lines.    *)
(***************************************************************************)
\* initialization data (display.cpp lines 6-26)
R74_DATA == <<\hC0, \h1C, \h1C, \hCC, \hCC, \hCC, \h15, \h15, \h55>>
PWR_DATA == <<\h0F, \h00, \h28, \h2C, \h28, \h38>>
RB6_DATA == <<\h07>>
BTST_P_DATA == <<\hD8, \h18>>
RB7_DATA == <<\h01>>
BTST_N_DATA == <<\hD8, \h18>>
RB0_DATA == <<\h01>>
RB1_DATA == <<\h02>>
RF0_DATA == <<\h49, \h55, \h13, \h5D, \h05, \h10>>
PSR_DATA == <<\hDF, \h69>>
CDI_DATA == <<\h37>>
R60_DATA == <<\h03, \h03>>
R86_DATA == <<\h10>>
PWS_DATA == <<\h22>>
TRES_DATA == <<\h04, \hB0, \h03, \h20>>
POF_DATA == <<\h00>>
SLEEP_DATA == <<\hA5>>

\* the lines before begin() has configured them, and Spectra6Display's
\* spiInitialized_ as the constructor leaves it
BusOff ==
    [PIN_CS_MASTER |-> "Z", PIN_CS_SLAVE |-> "Z", PIN_DC |-> "Z",
     PIN_RESET |-> "Z", spiInitialized_ |-> FALSE]

digitalWrite(pin, level) == <<[op |-> "digitalWrite", pin |-> pin, level |-> level]>>
spiBegin == <<[op |-> "spiBegin"]>>
spiEnd == <<[op |-> "spiEnd"]>>
spiWriteByte(data) == <<[op |-> "transfer", byte |-> data]>>
spiWriteArray(data) == [i \in 1..Len(data) |-> [op |-> "transfer", byte |-> data[i]]]
\* a call of waitUntilIdle(timeoutMs) that returned r ("ready" is true)
waitUntilIdleMs(timeoutMs, r) ==
    <<[op |-> "waitUntilIdle", timeoutMs |-> timeoutMs, result |-> r]>>

\* the lines after one operation
busStep(b, o) ==
    IF o.op = "digitalWrite" /\ o.pin \in DOMAIN b THEN [b EXCEPT ![o.pin] = o.level]
    ELSE IF o.op = "spiBegin" THEN [b EXCEPT !.spiInitialized_ = TRUE]
    ELSE b

\* the operations ops[lo..hi] played in order on the lines b: the lines at
\* the end and the log of each operation with the lines right after it
\* (b is never empty; testing it has TLC compute the lines of the first half
\* before it plays the second)
RECURSIVE ExecuteRange(_, _, _, _)
ExecuteRange(b, ops, lo, hi) ==
    IF lo > hi \/ DOMAIN b = {} THEN [bus |-> b, log |-> <<>>]
    ELSE IF lo = hi
    THEN LET nb == busStep(b, ops[lo])
         IN  [bus |-> nb, log |-> <<[e |-> ops[lo], bus |-> nb]>>]
    ELSE LET mid == (lo + hi) \div 2
             first == ExecuteRange(b, ops, lo, mid)
             rest == ExecuteRange(first.bus, ops, mid + 1, hi)
         IN  [bus |-> rest.bus, log |-> first.log \o rest.log]
Execute(b, ops) == ExecuteRange(b, ops, 1, Len(ops))

\* Spectra6Display::hardwareReset; r is the result of its wait
hardwareReset(r) ==
    digitalWrite("PIN_RESET", "LOW") \o digitalWrite("PIN_RESET", "HIGH")
    \o waitUntilIdleMs(2000, r)

\* Spectra6Display::bothCmdData
bothCmdData(cmd, data) ==
    digitalWrite("PIN_DC", "LOW") \o spiBegin
    \o digitalWrite("PIN_CS_MASTER", "LOW") \o digitalWrite("PIN_CS_SLAVE", "LOW")
    \o spiWriteByte(cmd)
    \o (IF Len(data) > 0
        THEN digitalWrite("PIN_DC", "HIGH") \o spiWriteArray(data) ELSE <<>>)
    \o digitalWrite("PIN_CS_MASTER", "HIGH") \o digitalWrite("PIN_CS_SLAVE", "HIGH")
    \o spiEnd

\* Spectra6Display::masterCmdData
masterCmdData(cmd, data) ==
    digitalWrite("PIN_CS_SLAVE", "HIGH") \o digitalWrite("PIN_DC", "LOW") \o spiBegin
    \o digitalWrite("PIN_CS_MASTER", "LOW")
    \o spiWriteByte(cmd)
    \o (IF Len(data) > 0
        THEN digitalWrite("PIN_DC", "HIGH") \o spiWriteArray(data) ELSE <<>>)
    \o digitalWrite("PIN_CS_MASTER", "HIGH")
    \o spiEnd

\* Spectra6Display::sendCmdDataWithCS: only the master's chip select is
\* toggled, the slave's is the caller's
sendCmdDataWithCS(cmd, data) ==
    digitalWrite("PIN_DC", "LOW") \o spiBegin
    \o digitalWrite("PIN_CS_MASTER", "LOW")
    \o spiWriteByte(cmd)
    \o (IF Len(data) > 0
        THEN digitalWrite("PIN_DC", "HIGH") \o spiWriteArray(data) ELSE <<>>)
    \o digitalWrite("PIN_CS_MASTER", "HIGH")
    \o spiEnd

\* the pattern of initializeDisplay for a command to both controllers
toBoth(cmd, data) ==
    digitalWrite("PIN_CS_SLAVE", "LOW")
    \o sendCmdDataWithCS(cmd, data)
    \o digitalWrite("PIN_CS_SLAVE", "HIGH")

\* faulty variant: the power setting 0x01 goes to both controllers and the
\* booster commands 0x06 and 0xB7 are exchanged
initializeDisplayWrongTargets ==
    masterCmdData(\h74, R74_DATA)
    \o toBoth(\hF0, RF0_DATA)
    \o toBoth(\h00, PSR_DATA)
    \o toBoth(\h50, CDI_DATA)
    \o toBoth(\h60, R60_DATA)
    \o toBoth(\h86, R86_DATA)
    \o toBoth(\hE3, PWS_DATA)
    \o toBoth(\h61, TRES_DATA)
    \o toBoth(\h01, PWR_DATA)
    \o masterCmdData(\hB6, RB6_DATA)
    \o masterCmdData(\hB7, RB7_DATA)
    \o masterCmdData(\h06, BTST_P_DATA)
    \o masterCmdData(\h05, BTST_N_DATA)
    \o masterCmdData(\hB0, RB0_DATA)
    \o masterCmdData(\hB1, RB1_DATA)

\* Spectra6Display::initializeDisplay
initializeDisplay ==
    masterCmdData(\h74, R74_DATA)
    \o toBoth(\hF0, RF0_DATA)
    \o toBoth(\h00, PSR_DATA)
    \o toBoth(\h50, CDI_DATA)
    \o toBoth(\h60, R60_DATA)
    \o toBoth(\h86, R86_DATA)
    \o toBoth(\hE3, PWS_DATA)
    \o toBoth(\h61, TRES_DATA)
    \o masterCmdData(\h01, PWR_DATA)
    \o masterCmdData(\hB6, RB6_DATA)
    \o masterCmdData(\h06, BTST_P_DATA)
    \o masterCmdData(\hB7, RB7_DATA)
    \o masterCmdData(\h05, BTST_N_DATA)
    \o masterCmdData(\hB0, RB0_DATA)
    \o masterCmdData(\hB1, RB1_DATA)

\* faulty variant: the nibbles of a byte are taken the other way round
getPixelSwappedNibbles(buf, x, y) ==
    LET byteIdx == (y * DISPLAY_WIDTH + x) \div 2
        b == buf[byteIdx + 1]
    IN  IF x % 2 = 1 THEN (b \div 16) % 16 ELSE b % 16

\* Spectra6Display::getPixel on the buffer buf (byte 0 of the buffer is
\* buf[1]); the read is inside the buffer
getPixel(buf, x, y) ==
    LET byteIdx == (y * DISPLAY_WIDTH + x) \div 2
        b == buf[byteIdx + 1]
    IN  IF x % 2 = 1 THEN b % 16 ELSE (b \div 16) % 16

\* the local constants of transferData (1600 and 300 on the device)
OUT_ROWS == DISPLAY_WIDTH
OUT_BYTES == DISPLAY_HEIGHT \div 4

\* faulty variant: the columns are walked from the first to the last
columnStreamNoFlip(buf, firstRow) ==
    [k \in 1..(OUT_ROWS * OUT_BYTES) |->
        LET outRow == (k - 1) \div OUT_BYTES
            outByte == (k - 1) % OUT_BYTES
            bufCol == outRow
            bufRowEven == firstRow + 2 * outByte
            bufRowOdd == firstRow + 2 * outByte + 1
            pixEven == getPixel(buf, bufCol, bufRowEven)
            pixOdd == getPixel(buf, bufCol, bufRowOdd)
        IN  [op |-> "transfer", byte |-> (pixEven * 16 + pixOdd) % 256,
             reads |-> <<<<bufCol, bufRowEven>>, <<bufCol, bufRowOdd>>>>]]

\* faulty variant: both loops walk the top half of the buffer rows
columnStreamTopHalfOnly(buf, firstRow) ==
    [k \in 1..(OUT_ROWS * OUT_BYTES) |->
        LET outRow == (k - 1) \div OUT_BYTES
            outByte == (k - 1) % OUT_BYTES
            bufCol == (DISPLAY_WIDTH - 1) - outRow
            bufRowEven == 2 * outByte
            bufRowOdd == 2 * outByte + 1
            pixEven == getPixel(buf, bufCol, bufRowEven)
            pixOdd == getPixel(buf, bufCol, bufRowOdd)
        IN  [op |-> "transfer", byte |-> (pixEven * 16 + pixOdd) % 256,
             reads |-> <<<<bufCol, bufRowEven>>, <<bufCol, bufRowOdd>>>>]]

\* the two loops of transferData over outRow and outByte, for the half of
\* the buffer rows that starts at firstRow: the bytes handed to SPI.transfer,
\* each with the coordinates of the two getPixel calls that made it
columnStream(buf, firstRow) ==
    [k \in 1..(OUT_ROWS * OUT_BYTES) |->
        LET outRow == (k - 1) \div OUT_BYTES
            outByte == (k - 1) % OUT_BYTES
            bufCol == (DISPLAY_WIDTH - 1) - outRow
            bufRowEven == firstRow + 2 * outByte
            bufRowOdd == firstRow + 2 * outByte + 1
            pixEven == getPixel(buf, bufCol, bufRowEven)
            pixOdd == getPixel(buf, bufCol, bufRowOdd)
        IN  [op |-> "transfer", byte |-> (pixEven * 16 + pixOdd) % 256,
             reads |-> <<<<bufCol, bufRowEven>>, <<bufCol, bufRowOdd>>>>]]

\* faulty variant: the secondary stays selected after CCSET, while the data
\* of the primary is written
transferDataSlaveStaysSelected(buf, r) ==
    digitalWrite("PIN_CS_SLAVE", "LOW") \o digitalWrite("PIN_DC", "LOW") \o spiBegin
    \o digitalWrite("PIN_CS_MASTER", "LOW")
    \o spiWriteByte(\hE0)
    \o digitalWrite("PIN_DC", "HIGH")
    \o spiWriteByte(\h01)
    \o digitalWrite("PIN_CS_MASTER", "HIGH") \o spiEnd
    \o waitUntilIdleMs(1000, r)
    \o digitalWrite("PIN_CS_MASTER", "LOW")
    \o spiBegin
    \o digitalWrite("PIN_DC", "LOW")
    \o spiWriteByte(\h10)
    \o digitalWrite("PIN_DC", "HIGH")
    \o columnStream(buf, 0)
    \o digitalWrite("PIN_CS_MASTER", "HIGH") \o spiEnd
    \o digitalWrite("PIN_CS_MASTER", "HIGH") \o digitalWrite("PIN_CS_SLAVE", "LOW")
    \o spiBegin
    \o digitalWrite("PIN_DC", "LOW")
    \o spiWriteByte(\h10)
    \o digitalWrite("PIN_DC", "HIGH")
    \o columnStream(buf, DISPLAY_HEIGHT \div 2)
    \o digitalWrite("PIN_CS_SLAVE", "HIGH") \o spiEnd

\* Spectra6Display::transferData; r is the result of the wait after CCSET
transferData(buf, r) ==
    digitalWrite("PIN_CS_SLAVE", "LOW") \o digitalWrite("PIN_DC", "LOW") \o spiBegin
    \o digitalWrite("PIN_CS_MASTER", "LOW")
    \o spiWriteByte(\hE0)
    \o digitalWrite("PIN_DC", "HIGH")
    \o spiWriteByte(\h01)
    \o digitalWrite("PIN_CS_MASTER", "HIGH") \o spiEnd
    \o digitalWrite("PIN_CS_SLAVE", "HIGH")
    \o waitUntilIdleMs(1000, r)
    \o digitalWrite("PIN_CS_SLAVE", "HIGH") \o digitalWrite("PIN_CS_MASTER", "LOW")
    \o spiBegin
    \o digitalWrite("PIN_DC", "LOW")
    \o spiWriteByte(\h10)
    \o digitalWrite("PIN_DC", "HIGH")
    \o columnStream(buf, 0)
    \o digitalWrite("PIN_CS_MASTER", "HIGH") \o spiEnd
    \o digitalWrite("PIN_CS_MASTER", "HIGH") \o digitalWrite("PIN_CS_SLAVE", "LOW")
    \o spiBegin
    \o digitalWrite("PIN_DC", "LOW")
    \o spiWriteByte(\h10)
    \o digitalWrite("PIN_DC", "HIGH")
    \o columnStream(buf, DISPLAY_HEIGHT \div 2)
    \o digitalWrite("PIN_CS_SLAVE", "HIGH") \o spiEnd

\* faulty variant: the refresh is triggered again when its wait timed out
refreshScreenRetrigger(pon, drf) ==
    digitalWrite("PIN_CS_SLAVE", "LOW") \o digitalWrite("PIN_DC", "LOW") \o spiBegin
    \o digitalWrite("PIN_CS_MASTER", "LOW")
    \o spiWriteByte(\h04)
    \o digitalWrite("PIN_CS_MASTER", "HIGH") \o spiEnd
    \o waitUntilIdleMs(5000, pon)
    \o digitalWrite("PIN_CS_SLAVE", "HIGH")
    \o digitalWrite("PIN_CS_SLAVE", "LOW") \o digitalWrite("PIN_DC", "LOW") \o spiBegin
    \o digitalWrite("PIN_CS_MASTER", "LOW")
    \o spiWriteByte(\h12)
    \o digitalWrite("PIN_DC", "HIGH")
    \o spiWriteByte(\h01)
    \o digitalWrite("PIN_CS_MASTER", "HIGH") \o spiEnd
    \o waitUntilIdleMs(60000, drf)
    \o (IF drf = "timeout"
        THEN digitalWrite("PIN_DC", "LOW") \o spiBegin
             \o digitalWrite("PIN_CS_MASTER", "LOW")
             \o spiWriteByte(\h12)
             \o digitalWrite("PIN_DC", "HIGH")
             \o spiWriteByte(\h01)
             \o digitalWrite("PIN_CS_MASTER", "HIGH") \o spiEnd
             \o waitUntilIdleMs(60000, drf)
        ELSE <<>>)
    \o digitalWrite("PIN_CS_SLAVE", "HIGH")

\* Spectra6Display::refreshScreen; pon and drf are the results of the waits
\* after power-on (0x04) and after the refresh trigger (0x12)
refreshScreen(pon, drf) ==
    digitalWrite("PIN_CS_SLAVE", "LOW") \o digitalWrite("PIN_DC", "LOW") \o spiBegin
    \o digitalWrite("PIN_CS_MASTER", "LOW")
    \o spiWriteByte(\h04)
    \o digitalWrite("PIN_CS_MASTER", "HIGH") \o spiEnd
    \o waitUntilIdleMs(5000, pon)
    \o digitalWrite("PIN_CS_SLAVE", "HIGH")
    \o digitalWrite("PIN_CS_SLAVE", "LOW") \o digitalWrite("PIN_DC", "LOW") \o spiBegin
    \o digitalWrite("PIN_CS_MASTER", "LOW")
    \o spiWriteByte(\h12)
    \o digitalWrite("PIN_DC", "HIGH")
    \o spiWriteByte(\h01)
    \o digitalWrite("PIN_CS_MASTER", "HIGH") \o spiEnd
    \o waitUntilIdleMs(60000, drf)
    \o digitalWrite("PIN_CS_SLAVE", "HIGH")

\* Spectra6Display::powerOff; r is the result of its wait
powerOff(r) ==
    digitalWrite("PIN_CS_SLAVE", "LOW") \o digitalWrite("PIN_DC", "LOW") \o spiBegin
    \o digitalWrite("PIN_CS_MASTER", "LOW")
    \o spiWriteByte(\h02)
    \o digitalWrite("PIN_DC", "HIGH")
    \o spiWriteByte(\h00)
    \o digitalWrite("PIN_CS_MASTER", "HIGH") \o spiEnd
    \o waitUntilIdleMs(5000, r)
    \o digitalWrite("PIN_CS_SLAVE", "HIGH")

\* Spectra6Display::displaySleep
displaySleep == bothCmdData(\h07, SLEEP_DATA)

\* faulty variant: a refresh that reuses the initialisation of begin()
refreshWithoutInit(buf, w) ==
    transferData(buf, w.ccset)
    \o refreshScreen(w.pon, w.drf)
    \o powerOff(w.pof)
    \o displaySleep

\* Spectra6Display::refresh on the buffer buf; w holds the results of its
\* five waits, in order: reset, ccset, pon, drf, pof
refresh(buf, w) ==
    hardwareReset(w.reset)
    \o initializeDisplay
    \o transferData(buf, w.ccset)
    \o refreshScreen(w.pon, w.drf)
    \o powerOff(w.pof)
    \o displaySleep

\* Spectra6Display::begin: allocOk says whether ps_malloc or malloc gave a
\* buffer, r is the result of the wait of hardwareReset
displayBegin(allocOk, r) ==
    IF ~allocOk
    THEN [result |-> FALSE, buffer_ |-> <<>>, ops |-> <<>>]
    ELSE [result |-> TRUE,
          buffer_ |-> [i \in 1..BUFFER_SIZE |-> \h11],
          ops |-> digitalWrite("PIN_CS_MASTER", "HIGH")
                  \o digitalWrite("PIN_CS_SLAVE", "HIGH")
                  \o digitalWrite("PIN_DC", "LOW")
                  \o digitalWrite("PIN_RESET", "HIGH")
                  \o digitalWrite("PIN_POWER", "HIGH")
                  \o hardwareReset(r)
                  \o initializeDisplay]

\* faulty variant: a length above the capacity is copied whole
loadImageDataNoTruncate(buf, data, length) ==
    IF buf = <<>> \/ data = <<>> THEN buf
    ELSE [i \in 1..(IF length > Len(buf) THEN length ELSE Len(buf)) |->
             IF i <= length THEN data[i] ELSE buf[i]]

\* Spectra6Display::loadImageData(data, length) on the buffer buf; <<>> is
\* nullptr, for the buffer and for the data
loadImageData(buf, data, length) ==
    IF buf = <<>> \/ data = <<>> THEN buf
    ELSE LET copyLen == IF length > BUFFER_SIZE THEN BUFFER_SIZE ELSE length
         IN  [i \in 1..Len(buf) |-> IF i <= copyLen THEN data[i] ELSE buf[i]]

\* Spectra6Display::fillColor
fillColor(buf, color) ==
    IF buf = <<>> THEN buf
    ELSE LET byteVal == color * 16 + color    \* (color << 4) | color, color < 16
         IN  [i \in 1..Len(buf) |-> byteVal]

(***************************************************************************)
(* Inputs of the environment                                               *)
(***************************************************************************)
\* instants of 2024-01-01 (UTC): 12:00, 19:50 and 22:00
Noon == VALID_UNIX_TIME + 12 * 3600
Evening == VALID_UNIX_TIME + 19 * 3600 + 50 * 60
Night == VALID_UNIX_TIME + 22 * 3600
ValidEpochs == {Noon, Evening, Night}
\* what the server may send as server_time_epoch
ServerEpochs == ValidEpochs \cup {0}

\* battery readings in centivolts; -100 is readBatteryVoltage's -1.0
BatteryReadings == {-100, 385}

HttpCodes == {HTTP_CODE_OK, 404}

\* bodies of GET /hash
HashBodies == {TokA, TokB, Short15, Long17}
\* values of the X-Image-Hash response header ("" when absent)
HeaderHashes == {EmptyStr, TokA, TokA2, Long17}
\* values of Content-Length (-1 when absent)
ContentLengths == {-1, 0, 1, BUFFER_SIZE, BUFFER_SIZE + 1}
\* the bytes of the image the server sends (two pixels of colour 2 and 3)
ServerImage == [i \in 1..BUFFER_SIZE |-> \h23]

\* the hold time of the configuration button and the delay between two
\* readings of it, in milliseconds
CONFIG_BUTTON_HOLD_MS == 1000
BUTTON_POLL_MS == 50
\* the readings checkConfigButton can take: the one of line 324, then one per
\* iteration of the loop until the hold time has elapsed
ButtonSamples == CONFIG_BUTTON_HOLD_MS \div BUTTON_POLL_MS + 2
\* the button held throughout, released from the k-th reading on (from the
\* first: never pressed), and released at the k-th reading only
Held == [i \in 1..ButtonSamples |-> "LOW"]
ReleasedAt(k) == [i \in 1..ButtonSamples |-> IF i < k THEN "LOW" ELSE "HIGH"]
ReleasedOnceAt(k) == [i \in 1..ButtonSamples |-> IF i = k THEN "HIGH" ELSE "LOW"]
ButtonReads ==
    {Held, ReleasedAt(1), ReleasedAt(ButtonSamples),
     ReleasedOnceAt(ButtonSamples \div 2)}

\* payloads of GET /device_config
DevicePayloads ==
    { Payload({"refresh_interval_minutes"}, 0, 30, 0, 0, 0) }
    \cup { Payload({"server_time_epoch"}, e, 0, 0, 0, 0) : e \in ServerEpochs }
    \cup { Payload({"server_time_epoch", "refresh_interval_minutes",
                    "active_start_hour", "active_end_hour"}, e, 30, 20, 8, 0)
           : e \in {Noon, Night} }
    \cup { Payload({"server_time_epoch", "refresh_interval_minutes",
                    "active_start_hour", "timezone_offset_minutes"},
                   Evening, 9999, 24, 0, 60) }

(***************************************************************************)
(* State                                                                   *)
(***************************************************************************)
VARIABLES
    pc,                 \* position of the firmware
    bootCount,          \* RTC memory
    lastImageHash,      \* RTC memory: the committed hash
    pendingImageHash,   \* RAM: the staged hash
    batteryVoltage,     \* RAM
    cfg,                \* ConfigManager fields (RAM)
    nvs,                \* the persistent configuration store
    clock,              \* system time, seconds since the epoch
    wifi,               \* "off", "connecting", "connected"
    buffer_,            \* Spectra6Display::buffer_ (<<>> is nullptr)
    powerPin,           \* PIN_POWER
    polls,              \* iterations of the loop in progress
    imageBuffer,        \* fetchAndDisplayImage: "none", "allocated", "freed"
    responseImageHash,  \* fetchAndDisplayImage local
    contentLength,      \* fetchAndDisplayImage local
    bytesRead,          \* fetchAndDisplayImage local
    sleepTimer,         \* seconds armed by esp_sleep_enable_timer_wakeup, 0 if none
    \* history of the current wake cycle
    trace,              \* the operations performed, in order
    panelLog,           \* the operations issued to the panel, in order
    hashAtBoot,         \* lastImageHash when the cycle started
    cfgAtBoot,          \* the stored configuration when the cycle started
    nvsAtBoot,          \* the store when the cycle started
    check,              \* the freshness check of this cycle
    refreshOk,          \* waitUntilIdle(60000): "none", "ready", "timeout"
    fetchResult,        \* fetchAndDisplayImage: "none", "true", "false"
    \* history of the schedule functions and of the configuration store
    call,               \* the last call: its name, arguments and results (of
                        \* checkConfigButton: the readings that led to
                        \* configuration mode)
    bus                 \* the lines to the panel: chip selects, DC, reset, SPI

vars == <<pc, bootCount, lastImageHash, pendingImageHash, batteryVoltage, cfg,
          nvs, clock, wifi, buffer_, powerPin, polls, imageBuffer,
          responseImageHash, contentLength, bytesRead, sleepTimer, trace,
          panelLog, hashAtBoot, cfgAtBoot, nvsAtBoot, check, refreshOk,
          fetchResult, call, bus>>

NoCheck == [done |-> FALSE, httpCode |-> 0, body |-> EmptyStr, changed |-> FALSE]
NullBuffer == <<>>
NoCall == [op |-> "none"]

\* faulty variant: the staged hash is kept in RTC memory
pendingKeptAcrossBoot(old) == old

\* pendingImageHash when the program image starts: a plain global with a zero
\* initialiser (no RTC_DATA_ATTR), whatever it held before
pendingAtStartup(old) == EmptyStr

\* RAM and the history of the cycle at the start of a program image
StartImage ==
    /\ pendingImageHash' = pendingAtStartup(pendingImageHash)
    /\ batteryVoltage' = -100
    /\ cfg' = DefaultConfig
    /\ wifi' = "off"
    /\ buffer_' = NullBuffer
    /\ polls' = 0
    /\ imageBuffer' = "none"
    /\ responseImageHash' = EmptyStr
    /\ contentLength' = 0
    /\ bytesRead' = 0
    /\ sleepTimer' = 0
    /\ trace' = <<>>
    /\ panelLog' = <<>>
    /\ hashAtBoot' = lastImageHash'
    /\ cfgAtBoot' = configBegin(nvs)
    /\ nvsAtBoot' = nvs
    /\ check' = NoCheck
    /\ refreshOk' = "none"
    /\ fetchResult' = "none"
    /\ UNCHANGED <<call, bus>>

\* the variables of the wake cycle at the first power-on
PowerOn ==
    /\ bootCount = 0
    /\ lastImageHash = EmptyStr
    /\ pendingImageHash = EmptyStr
    /\ batteryVoltage = -100
    /\ wifi = "off"
    /\ buffer_ = NullBuffer
    /\ powerPin = "LOW"
    /\ bus = BusOff
    /\ polls = 0
    /\ imageBuffer = "none"
    /\ responseImageHash = EmptyStr
    /\ contentLength = 0
    /\ bytesRead = 0
    /\ sleepTimer = 0
    /\ trace = <<>>
    /\ panelLog = <<>>
    /\ hashAtBoot = EmptyStr
    /\ cfgAtBoot = DefaultConfig
    /\ nvsAtBoot = EmptyNVS
    /\ check = NoCheck
    /\ refreshOk = "none"
    /\ fetchResult = "none"

Init ==
    /\ pc = "boot"
    /\ cfg = DefaultConfig
    /\ nvs = EmptyNVS
    /\ clock = 0
    /\ call = NoCall
    /\ PowerOn

(***************************************************************************)
(* Helpers of the wake cycle                                               *)
(***************************************************************************)
Did(e) == \E i \in 1..Len(trace) : trace[i] = e
Count(e) == Cardinality({i \in 1..Len(trace) : trace[i] = e})
Issued(op) == \E i \in 1..Len(panelLog) : panelLog[i] = op

\* faulty variant: the cycle goes to sleep with the network still held
SleepAfterKeepsNetwork(before) ==
    /\ wifi' = wifi
    /\ sleepTimer' = calculateSleepSeconds(cfg, clock)
    /\ powerPin' = "LOW"
    /\ trace' = trace \o before
                \o <<"calc_sleep", "timer_armed", "power_low", "deep_sleep">>
    /\ pc' = "asleep"

\* disconnectWiFi(); enterDeepSleep(calculateSleepSeconds());
\* preceded by the operations `before` of the same step
SleepAfter(before) ==
    /\ wifi' = "off"
    /\ sleepTimer' = calculateSleepSeconds(cfg, clock)
    /\ powerPin' = "LOW"
    /\ trace' = trace \o before
                \o <<"wifi_off", "calc_sleep", "timer_armed", "power_low", "deep_sleep">>
    /\ pc' = "asleep"

\* the timeout test of a polling loop, after `n` iterations already waited
timedOut(n) == n + 1 > MaxPolls

(***************************************************************************)
(* setup(): boot counter, configuration, the config button, and the start  *)
(* of runNormalMode() up to WiFi.begin()                                   *)
(***************************************************************************)
\* checkConfigButton(): the loop of lines 329-335, at its i-th reading of the
\* pin, `elapsed` ms after the first
RECURSIVE holdLoop(_, _, _)
holdLoop(reads, i, elapsed) ==
    IF reads[i] # "LOW" THEN FALSE
    ELSE IF elapsed >= CONFIG_BUTTON_HOLD_MS THEN TRUE
    ELSE holdLoop(reads, i + 1, elapsed + BUTTON_POLL_MS)

\* faulty variant: a button found pressed at boot is enough
checkConfigButtonNoHold(reads) == reads[1] = "LOW"

\* checkConfigButton() on the successive readings of PIN_BUTTON_1
checkConfigButton(reads) ==
    IF reads[1] = "LOW" THEN holdLoop(reads, 2, 0) ELSE FALSE

Setup ==
    /\ pc = "boot"
    /\ bootCount' = bootCount + 1
    /\ cfg' = configBegin(nvs)
    /\ \E reads \in ButtonReads :
         /\ IF checkConfigButton(reads)
            THEN /\ pc' = "config_mode"
                 /\ call' = [op |-> "checkConfigButton", result |-> TRUE,
                             reads |-> reads]
                 /\ \E sta \in BOOLEAN : wifi' = IF sta THEN "connected" ELSE "ap"
                 /\ trace' = <<"boot", "button_sample", "config_mode", "wifi_begin">>
                 /\ UNCHANGED <<batteryVoltage, polls>>
            ELSE /\ pc' = "connectWiFi"
                 /\ call' = [op |-> "checkConfigButton", result |-> FALSE]
                 /\ \E v \in BatteryReadings : batteryVoltage' = v
                 /\ wifi' = "connecting"
                 /\ polls' = 0
                 /\ trace' = <<"boot", "button_sample", "battery", "wifi_begin">>
    /\ UNCHANGED <<lastImageHash, pendingImageHash, nvs, clock, buffer_, powerPin,
                   imageBuffer, responseImageHash, contentLength, bytesRead,
                   sleepTimer, panelLog, hashAtBoot, cfgAtBoot, nvsAtBoot, bus, check,
                   refreshOk, fetchResult>>

(***************************************************************************)
(* connectWiFi(): one iteration of the status loop; on timeout the cycle    *)
(* goes to sleep (runNormalMode lines 582-587)                             *)
(***************************************************************************)
\* faulty variant: the connection is tried again instead of sleeping
WiFiFailedRetry ==
    /\ polls' = 0
    /\ UNCHANGED <<pc, wifi, trace, sleepTimer, powerPin>>

\* faulty variant: control falls through to the rest of runNormalMode
WiFiFailedFallThrough ==
    /\ wifi' = "off"
    /\ pc' = "sync"
    /\ trace' = trace \o <<"wifi_fail", "wifi_off">>
    /\ UNCHANGED <<polls, sleepTimer, powerPin>>

\* connectWiFi() returned false (runNormalMode lines 582-587)
WiFiFailed ==
    /\ SleepAfter(<<"wifi_fail">>)
    /\ UNCHANGED polls

ConnectWiFiPoll ==
    /\ pc = "connectWiFi"
    /\ \E connected \in BOOLEAN :
         IF connected
         THEN /\ wifi' = "connected"
              /\ pc' = "sync"
              /\ trace' = Append(trace, "wifi_connected")
              /\ UNCHANGED <<polls, sleepTimer, powerPin>>
         ELSE IF timedOut(polls)
         THEN WiFiFailed
         ELSE /\ polls' = polls + 1
              /\ UNCHANGED <<pc, wifi, trace, sleepTimer, powerPin>>
    /\ UNCHANGED <<bootCount, lastImageHash, pendingImageHash, batteryVoltage, cfg,
                   nvs, clock, buffer_, imageBuffer, responseImageHash,
                   contentLength, bytesRead, panelLog, hashAtBoot, cfgAtBoot,
                   nvsAtBoot, call, bus, check, refreshOk, fetchResult>>

(***************************************************************************)
(* syncRemoteConfigAndTime() (runNormalMode line 589)                      *)
(***************************************************************************)
SyncStep ==
    /\ pc = "sync"
    /\ \E httpCode \in HttpCodes, parseOk \in BOOLEAN, doc \in DevicePayloads :
         LET r == syncRemoteConfigAndTime(httpCode, parseOk, doc, cfg, nvs, clock)
         IN  /\ clock' = r.clock
             /\ cfg' = r.cfg
             /\ nvs' = r.nvs
             /\ trace' = Append(trace, IF r.ok THEN "sync_ok" ELSE "sync_failed")
    /\ pc' = "quiet"
    /\ UNCHANGED <<bootCount, lastImageHash, pendingImageHash, batteryVoltage, wifi,
                   buffer_, powerPin, polls, imageBuffer, responseImageHash,
                   contentLength, bytesRead, sleepTimer, panelLog, hashAtBoot,
                   cfgAtBoot, nvsAtBoot, call, bus, check, refreshOk, fetchResult>>

(***************************************************************************)
(* the quiet-hours test (runNormalMode lines 592-600)                      *)
(***************************************************************************)
\* faulty variant: the window of the configuration loaded at boot is used
QuietHoursStepStaleConfig ==
    /\ pc = "quiet"
    /\ IF isClockValid(clock)
          /\ ~isWithinActiveWindow(clock, cfgAtBoot.activeStartHour,
                                   cfgAtBoot.activeEndHour,
                                   cfgAtBoot.timezoneOffsetMinutes)
       THEN SleepAfter(<<"quiet_hours">>)
       ELSE /\ pc' = "hash"
            /\ UNCHANGED <<wifi, sleepTimer, powerPin, trace>>
    /\ UNCHANGED <<bootCount, lastImageHash, pendingImageHash, batteryVoltage, cfg,
                   nvs, clock, buffer_, polls, imageBuffer, responseImageHash,
                   contentLength, bytesRead, panelLog, hashAtBoot, cfgAtBoot,
                   nvsAtBoot, call, bus, check, refreshOk, fetchResult>>

QuietHoursStep ==
    /\ pc = "quiet"
    /\ IF isClockValid(clock)
          /\ ~isWithinActiveWindow(clock, cfg.activeStartHour, cfg.activeEndHour,
                                   cfg.timezoneOffsetMinutes)
       THEN SleepAfter(<<"quiet_hours">>)
       ELSE /\ pc' = "hash"
            /\ UNCHANGED <<wifi, sleepTimer, powerPin, trace>>
    /\ UNCHANGED <<bootCount, lastImageHash, pendingImageHash, batteryVoltage, cfg,
                   nvs, clock, buffer_, polls, imageBuffer, responseImageHash,
                   contentLength, bytesRead, panelLog, hashAtBoot, cfgAtBoot,
                   nvsAtBoot, call, bus, check, refreshOk, fetchResult>>

(***************************************************************************)
(* checkImageChanged() and the sleep on "unchanged" (lines 602-607)        *)
(***************************************************************************)
CheckStep ==
    /\ pc = "hash"
    /\ \E httpCode \in HttpCodes, body \in HashBodies :
         LET r == checkImageChanged(httpCode, body, lastImageHash, pendingImageHash)
         IN  /\ lastImageHash' = r.last
             /\ pendingImageHash' = r.pending
             /\ check' = [done |-> TRUE, httpCode |-> httpCode,
                          body |-> IF httpCode = HTTP_CODE_OK THEN body ELSE EmptyStr,
                          changed |-> r.changed]
             /\ IF r.changed
                THEN /\ pc' = "display_begin"
                     /\ trace' = Append(trace, "hash_check")
                     /\ UNCHANGED <<wifi, sleepTimer, powerPin>>
                ELSE SleepAfter(<<"hash_check">>)
    /\ UNCHANGED <<bootCount, batteryVoltage, cfg, nvs, clock, buffer_, polls,
                   imageBuffer, responseImageHash, contentLength, bytesRead,
                   panelLog, hashAtBoot, cfgAtBoot, nvsAtBoot, call, bus, refreshOk,
                   fetchResult>>

(***************************************************************************)
(* PanelProtocolDriver (display.cpp), at the level of its phases            *)
(***************************************************************************)
\* waitUntilIdle(): "ready" when the busy pin reads HIGH, "timeout" when it
\* still reads LOW once the timeout has elapsed
WaitResults == {"ready", "timeout"}
waitUntilIdle(r) == r = "ready" \/ (r = "timeout" /\ timedOut(polls))

\* what follows each ready-wait: the operations issued to the panel up to the
\* next wait, and the next position
AfterWait ==
    [begin_reset_wait |-> [ops |-> <<"INIT">>, next |-> "fetch"],
     rf_reset_wait |-> [ops |-> <<"INIT", "CCSET">>, next |-> "rf_ccset_wait"],
     rf_ccset_wait |-> [ops |-> <<"DTM_MASTER", "DTM_SLAVE", "PON">>,
                        next |-> "rf_pon_wait"],
     rf_pon_wait |-> [ops |-> <<"DRF">>, next |-> "rf_drf_wait"],
     rf_drf_wait |-> [ops |-> <<"POF">>, next |-> "rf_pof_wait"],
     rf_pof_wait |-> [ops |-> <<"DSLP">>, next |-> "commit"]]
WaitPcs == DOMAIN AfterWait

(***************************************************************************)
(* display.begin() up to the wait of hardwareReset(); on failure the       *)
(* restart of runNormalMode lines 610-615                                  *)
(***************************************************************************)
\* faulty variant: begin() resets the panel before it allocates the buffer
DisplayBeginResetsBeforeAlloc ==
    /\ pc = "display_begin"
    /\ \E allocOk \in BOOLEAN :
         IF allocOk
         THEN /\ buffer_' = displayBegin(TRUE, "ready").buffer_
              /\ powerPin' = "HIGH"
              /\ panelLog' = Append(panelLog, "RESET")
              /\ polls' = 0
              /\ pc' = "begin_reset_wait"
              /\ trace' = Append(trace, "display_begin")
              /\ UNCHANGED wifi
         ELSE /\ wifi' = "off"
              /\ pc' = "restart"
              /\ panelLog' = Append(panelLog, "RESET")
              /\ powerPin' = "HIGH"
              /\ trace' = trace \o <<"display_begin", "begin_failed", "wifi_off", "restart">>
              /\ UNCHANGED <<buffer_, polls>>
    /\ UNCHANGED <<bootCount, lastImageHash, pendingImageHash, batteryVoltage, cfg,
                   nvs, clock, imageBuffer, responseImageHash, contentLength,
                   bytesRead, sleepTimer, hashAtBoot, cfgAtBoot, nvsAtBoot, call, bus,
                   check, refreshOk, fetchResult>>

\* faulty variant: a failed begin() is answered like a failed fetch, with
\* deep sleep
DisplayBeginFailureSleeps ==
    /\ pc = "display_begin"
    /\ \E allocOk \in BOOLEAN :
         IF allocOk
         THEN /\ buffer_' = displayBegin(TRUE, "ready").buffer_
              /\ powerPin' = "HIGH"
              /\ panelLog' = Append(panelLog, "RESET")
              /\ polls' = 0
              /\ pc' = "begin_reset_wait"
              /\ trace' = Append(trace, "display_begin")
              /\ UNCHANGED <<wifi, sleepTimer>>
         ELSE /\ SleepAfter(<<"display_begin", "begin_failed">>)
              /\ UNCHANGED <<buffer_, panelLog, polls>>
    /\ UNCHANGED <<bootCount, lastImageHash, pendingImageHash, batteryVoltage, cfg,
                   nvs, clock, imageBuffer, responseImageHash, contentLength,
                   bytesRead, hashAtBoot, cfgAtBoot, nvsAtBoot, call, bus, check,
                   refreshOk, fetchResult>>

DisplayBegin ==
    /\ pc = "display_begin"
    /\ \E allocOk \in BOOLEAN :
         IF allocOk
         THEN /\ buffer_' = displayBegin(TRUE, "ready").buffer_
              /\ powerPin' = "HIGH"
              /\ panelLog' = Append(panelLog, "RESET")
              /\ polls' = 0
              /\ pc' = "begin_reset_wait"
              /\ trace' = Append(trace, "display_begin")
              /\ UNCHANGED wifi
         ELSE /\ wifi' = "off"
              /\ pc' = "restart"
              /\ trace' = trace \o <<"display_begin", "begin_failed", "wifi_off", "restart">>
              /\ UNCHANGED <<buffer_, powerPin, panelLog, polls>>
    /\ UNCHANGED <<bootCount, lastImageHash, pendingImageHash, batteryVoltage, cfg,
                   nvs, clock, imageBuffer, responseImageHash, contentLength,
                   bytesRead, sleepTimer, hashAtBoot, cfgAtBoot, nvsAtBoot, call, bus, check,
                   refreshOk, fetchResult>>

\* one iteration of waitUntilIdle with the busy pin LOW and time left
WaitPoll ==
    /\ pc \in WaitPcs
    /\ ~timedOut(polls)
    /\ polls' = polls + 1
    /\ UNCHANGED <<pc, bootCount, lastImageHash, pendingImageHash, batteryVoltage,
                   cfg, nvs, clock, wifi, buffer_, powerPin, imageBuffer,
                   responseImageHash, contentLength, bytesRead, sleepTimer, trace,
                   panelLog, hashAtBoot, cfgAtBoot, nvsAtBoot, call, bus, check, refreshOk,
                   fetchResult>>

\* waitUntilIdle returns (either way) and the driver runs on to its next wait:
\* begin() -> initializeDisplay; refresh() -> initializeDisplay, transferData,
\* refreshScreen, powerOff, displaySleep
WaitReturns ==
    /\ pc \in WaitPcs
    /\ \E r \in WaitResults :
         /\ waitUntilIdle(r)
         /\ refreshOk' = IF pc = "rf_drf_wait" THEN r ELSE refreshOk
    /\ panelLog' = panelLog \o AfterWait[pc].ops
    /\ pc' = AfterWait[pc].next
    /\ polls' = 0
    /\ trace' = IF pc = "begin_reset_wait" THEN Append(trace, "begin_ok")
                ELSE IF pc = "rf_pof_wait" THEN Append(trace, "refresh_returned")
                ELSE trace
    /\ UNCHANGED <<bootCount, lastImageHash, pendingImageHash, batteryVoltage, cfg,
                   nvs, clock, wifi, buffer_, powerPin, imageBuffer,
                   responseImageHash, contentLength, bytesRead, sleepTimer,
                   hashAtBoot, cfgAtBoot, nvsAtBoot, call, bus, check, fetchResult>>

(***************************************************************************)
(* fetchAndDisplayImage()                                                  *)
(***************************************************************************)
\* fetchAndDisplayImage returned false: runNormalMode lines 618-627
FetchFailed(before) ==
    /\ fetchResult' = "false"
    /\ SleepAfter(before \o <<"fetch_failed">>)

\* from ps_malloc to the test of the content length (lines 420-464)
FetchStep ==
    /\ pc = "fetch"
    /\ \E mallocOk \in BOOLEAN, httpCode \in HttpCodes,
          hdr \in HeaderHashes, len \in ContentLengths :
         IF ~mallocOk
         THEN /\ FetchFailed(<<"fetch", "alloc_failed">>)
              /\ UNCHANGED <<imageBuffer, responseImageHash, contentLength>>
         ELSE IF httpCode # HTTP_CODE_OK
         THEN /\ imageBuffer' = "freed"
              /\ FetchFailed(<<"fetch", "http_get", "http_error", "free", "http_end">>)
              /\ UNCHANGED <<responseImageHash, contentLength>>
         ELSE IF len <= 0 \/ len > BUFFER_SIZE
         THEN /\ imageBuffer' = "freed"
              /\ responseImageHash' = hdr
              /\ contentLength' = len
              /\ FetchFailed(<<"fetch", "http_get", "bad_length", "free", "http_end">>)
         ELSE /\ imageBuffer' = "allocated"
              /\ responseImageHash' = hdr
              /\ contentLength' = len
              /\ pc' = "download"
              /\ trace' = trace \o <<"fetch", "http_get">>
              /\ UNCHANGED <<fetchResult, wifi, sleepTimer, powerPin>>
    /\ bytesRead' = 0
    /\ polls' = 0
    /\ UNCHANGED <<bootCount, lastImageHash, pendingImageHash, batteryVoltage, cfg,
                   nvs, clock, buffer_, panelLog, hashAtBoot, cfgAtBoot, nvsAtBoot, call, bus,
                   check, refreshOk>>

\* faulty variant: the downloaded bytes are loaded and shown whatever their
\* number
AfterDownloadNoLengthTest ==
    /\ buffer_' = loadImageData(buffer_, ServerImage, bytesRead)
    /\ imageBuffer' = "freed"
    /\ panelLog' = Append(panelLog, "RESET")
    /\ polls' = 0
    /\ pc' = "rf_reset_wait"
    /\ trace' = trace \o <<"http_end", "load", "free", "refresh">>
    /\ UNCHANGED <<fetchResult, wifi, sleepTimer, powerPin, bytesRead>>

\* faulty variant: an incomplete download returns without freeing the buffer
AfterDownloadLeaksOnIncomplete ==
    IF bytesRead # contentLength
    THEN /\ FetchFailed(<<"http_end", "incomplete">>)
         /\ UNCHANGED <<buffer_, panelLog, polls, bytesRead, imageBuffer>>
    ELSE /\ buffer_' = loadImageData(buffer_, ServerImage, bytesRead)
         /\ imageBuffer' = "freed"
         /\ panelLog' = Append(panelLog, "RESET")
         /\ polls' = 0
         /\ pc' = "rf_reset_wait"
         /\ trace' = trace \o <<"http_end", "load", "free", "refresh">>
         /\ UNCHANGED <<fetchResult, wifi, sleepTimer, powerPin, bytesRead>>

\* after the download loop (lines 494-511): http.end(), the length test, then
\* loadImageData, free and display.refresh() up to the wait of hardwareReset()
AfterDownload ==
    IF bytesRead # contentLength
    THEN /\ imageBuffer' = "freed"
         /\ FetchFailed(<<"http_end", "incomplete", "free">>)
         /\ UNCHANGED <<buffer_, panelLog, polls, bytesRead>>
    ELSE /\ buffer_' = loadImageData(buffer_, ServerImage, bytesRead)
         /\ imageBuffer' = "freed"
         /\ panelLog' = Append(panelLog, "RESET")
         /\ polls' = 0
         /\ pc' = "rf_reset_wait"
         /\ trace' = trace \o <<"http_end", "load", "free", "refresh">>
         /\ UNCHANGED <<fetchResult, wifi, sleepTimer, powerPin, bytesRead>>

\* one evaluation of the download loop (lines 472-492)
DownloadStep ==
    /\ pc = "download"
    /\ \E connected \in BOOLEAN, available \in {0, 1, BUFFER_SIZE} :
         IF bytesRead < contentLength /\ connected
         THEN IF available > 0
              THEN LET left == contentLength - bytesRead
                       toRead == IF available < left THEN available ELSE left
                   IN  /\ bytesRead' = bytesRead + toRead
                       /\ polls' = 0
                       /\ UNCHANGED <<pc, imageBuffer, buffer_, panelLog, trace,
                                      fetchResult, wifi, sleepTimer, powerPin>>
              ELSE IF timedOut(polls)
              THEN AfterDownload
              ELSE /\ polls' = polls + 1
                   /\ UNCHANGED <<pc, bytesRead, imageBuffer, buffer_, panelLog,
                                  trace, fetchResult, wifi, sleepTimer, powerPin>>
         ELSE AfterDownload
    /\ UNCHANGED <<bootCount, lastImageHash, pendingImageHash, batteryVoltage, cfg,
                   nvs, clock, responseImageHash, contentLength, hashAtBoot,
                   cfgAtBoot, nvsAtBoot, call, bus, check, refreshOk>>

\* faulty variant: the hash is committed only when the refresh wait succeeded
CommitStepOnlyIfReady ==
    /\ pc = "commit"
    /\ lastImageHash' = IF refreshOk = "ready"
                        THEN commitHash(responseImageHash, pendingImageHash,
                                        lastImageHash)
                        ELSE lastImageHash
    /\ pendingImageHash' = EmptyStr
    /\ fetchResult' = "true"
    /\ SleepAfter(<<"commit">>)
    /\ UNCHANGED <<bootCount, batteryVoltage, cfg, nvs, clock, buffer_, polls,
                   imageBuffer, responseImageHash, contentLength, bytesRead,
                   panelLog, hashAtBoot, cfgAtBoot, nvsAtBoot, call, bus, check, refreshOk>>

\* after display.refresh() has returned (lines 513-529), then runNormalMode
\* lines 623-627
CommitStep ==
    /\ pc = "commit"
    /\ lastImageHash' = commitHash(responseImageHash, pendingImageHash, lastImageHash)
    /\ pendingImageHash' = EmptyStr
    /\ fetchResult' = "true"
    /\ SleepAfter(<<"commit">>)
    /\ UNCHANGED <<bootCount, batteryVoltage, cfg, nvs, clock, buffer_, polls,
                   imageBuffer, responseImageHash, contentLength, bytesRead,
                   panelLog, hashAtBoot, cfgAtBoot, nvsAtBoot, call, bus, check, refreshOk>>

(***************************************************************************)
(* Starts of the program image                                             *)
(***************************************************************************)
\* the timer ends deep sleep: RTC memory and the RTC clock are kept, the
\* clock has advanced
Wake ==
    /\ pc = "asleep"
    /\ bootCount < MaxBoots
    /\ pc' = "boot"
    /\ clock' \in (IF isClockValid(clock) THEN ValidEpochs ELSE {clock})
    /\ UNCHANGED <<bootCount, lastImageHash, nvs, powerPin>>
    /\ StartImage

\* ESP.restart(): the clock is kept; RTC_DATA_ATTR memory is either kept or
\* loaded again with its initialisers, depending on the platform
Restart ==
    /\ pc = "restart"
    /\ pc' = "boot"
    /\ \E kept \in BOOLEAN :
         /\ kept => bootCount < MaxBoots
         /\ lastImageHash' = IF kept THEN lastImageHash ELSE EmptyStr
         /\ bootCount' = IF kept THEN bootCount ELSE 0
    /\ UNCHANGED <<nvs, clock, powerPin>>
    /\ StartImage

\* configuration mode: ConfigServer::handleReboot
ConfigModeReboot ==
    /\ pc = "config_mode"
    /\ pc' = "restart"
    /\ trace' = Append(trace, "restart")
    /\ UNCHANGED <<bootCount, lastImageHash, pendingImageHash, batteryVoltage, cfg,
                   nvs, clock, wifi, buffer_, powerPin, polls, imageBuffer,
                   responseImageHash, contentLength, bytesRead, sleepTimer,
                   panelLog, hashAtBoot, cfgAtBoot, nvsAtBoot, call, bus, check, refreshOk,
                   fetchResult>>

Next ==
    \/ Setup
    \/ ConnectWiFiPoll
    \/ SyncStep
    \/ QuietHoursStep
    \/ CheckStep
    \/ DisplayBegin
    \/ WaitPoll
    \/ WaitReturns
    \/ FetchStep
    \/ DownloadStep
    \/ CommitStep
    \/ Wake
    \/ Restart
    \/ ConfigModeReboot

Spec == Init /\ [][Next]_vars

\* the processor keeps executing: a step that can be taken is taken
FairSpec == Spec /\ WF_vars(Next)

(***************************************************************************)
(* The schedule functions on their own                                     *)
(***************************************************************************)
\* hours, offsets and refresh intervals of the configuration in use
SchedHours == {0, 8, 20, 23}
SchedOffsets == {-720, -60, 0, 840}
SchedRefresh == {0, 1, 15, 1440, 65535}
\* instants: every hour of 2024-01-01 (UTC) at :00:00, :59:00 and :59:59, and
\* instants around the epoch, before any synchronisation
SchedInstants ==
    { VALID_UNIX_TIME + h * 3600 + d : h \in 0..23, d \in {0, 3540, 3599} }
    \cup {-86400, -64800, -3600, -1, 0, 86399}

SchedConfigs ==
    { [DefaultConfig EXCEPT !.sleepMinutes = r, !.activeStartHour = s,
                            !.activeEndHour = e, !.timezoneOffsetMinutes = z]
      : r \in SchedRefresh, s \in SchedHours, e \in SchedHours, z \in SchedOffsets }

cycleVars == <<pc, bootCount, lastImageHash, pendingImageHash, batteryVoltage, cfg,
               nvs, clock, wifi, buffer_, powerPin, polls, imageBuffer,
               responseImageHash, contentLength, bytesRead, sleepTimer, trace,
               panelLog, hashAtBoot, cfgAtBoot, nvsAtBoot, check, refreshOk,
               fetchResult, bus>>

SchedInit ==
    /\ pc = "schedule"
    /\ cfg \in SchedConfigs
    /\ nvs = EmptyNVS
    /\ clock \in SchedInstants
    /\ call = NoCall
    /\ PowerOn

CallIsWithinActiveWindow ==
    /\ pc = "schedule" /\ call = NoCall
    /\ call' = [op |-> "isWithinActiveWindow",
                result |-> isWithinActiveWindow(clock, cfg.activeStartHour,
                               cfg.activeEndHour, cfg.timezoneOffsetMinutes)]
    /\ UNCHANGED cycleVars

CallSecondsUntilNextActiveWindow ==
    /\ pc = "schedule" /\ call = NoCall
    /\ call' = [op |-> "secondsUntilNextActiveWindow",
                result |-> secondsUntilNextActiveWindow(clock, cfg.activeStartHour,
                               cfg.timezoneOffsetMinutes)]
    /\ UNCHANGED cycleVars

CallSecondsUntilWindowEnd ==
    /\ pc = "schedule" /\ call = NoCall
    /\ call' = [op |-> "secondsUntilWindowEnd",
                result |-> secondsUntilWindowEnd(clock, cfg.activeStartHour,
                               cfg.activeEndHour, cfg.timezoneOffsetMinutes)]
    /\ UNCHANGED cycleVars

CallCalculateSleepSeconds ==
    /\ pc = "schedule" /\ call = NoCall
    /\ call' = [op |-> "calculateSleepSeconds",
                result |-> calculateSleepSeconds(cfg, clock)]
    /\ UNCHANGED cycleVars

SchedNext ==
    \/ CallIsWithinActiveWindow
    \/ CallSecondsUntilNextActiveWindow
    \/ CallSecondsUntilWindowEnd
    \/ CallCalculateSleepSeconds

SchedSpec == SchedInit /\ [][SchedNext]_vars

(***************************************************************************)
(* The configuration store on its own: any sequence of its operations     *)
(***************************************************************************)
HostArgs == {EmptyStr, <<"h">>, Rep(MAX_HOST_LENGTH, "h")}
PortArgs == {0, 80}
EndpointArgs ==
    {EmptyStr, <<"x">>, <<"/", "x">>, Rep(MAX_ENDPOINT_LENGTH - 1, "x"),
     Rep(MAX_ENDPOINT_LENGTH, "x")}
SleepArgs == {0, 1440, 1441}
HourArgs == {23, 24}
OffsetArgs == {-721, 840, 841}
\* the numbers typed into the web form: 65537 narrows to 1, 70000 to 4464
FormNumbers == {0, 1440, 1441, 65537, 70000}
\* payloads of GET /device_config seen by the store
RemotePayloads ==
    { Payload({"server_time_epoch"}, Noon, 0, 0, 0, 0),
      Payload({"server_time_epoch", "refresh_interval_minutes",
               "active_start_hour"}, Noon, 9999, 7, 0, 0),
      Payload({"server_time_epoch", "refresh_interval_minutes", "active_start_hour",
               "active_end_hour", "timezone_offset_minutes"}, Noon, 1, 0, 23, -720),
      Payload({"server_time_epoch", "refresh_interval_minutes", "active_start_hour",
               "active_end_hour", "timezone_offset_minutes"}, Noon, 0, 24, -1, 841),
      Payload({"refresh_interval_minutes", "active_start_hour"}, 0, 1, 7, 0, 0) }

\* the variables the store does not touch
storeFrame == <<pc, bootCount, lastImageHash, pendingImageHash, batteryVoltage,
                wifi, buffer_, powerPin, polls, imageBuffer, responseImageHash,
                contentLength, bytesRead, sleepTimer, trace, panelLog, hashAtBoot,
                cfgAtBoot, nvsAtBoot, check, refreshOk, fetchResult, bus>>
Before == [cfg |-> cfg, nvs |-> nvs, clock |-> clock]

StoreInit ==
    /\ pc = "store"
    /\ cfg = DefaultConfig
    /\ nvs = EmptyNVS
    /\ clock = 0
    /\ call = NoCall
    /\ PowerOn

\* a call of the store: its result becomes the state, the call is recorded
Stored(r, record) ==
    /\ pc = "store"
    /\ cfg' = r.cfg
    /\ nvs' = r.nvs
    /\ call' = record
    /\ UNCHANGED <<clock, storeFrame>>

CallSetServerHost ==
    \E host \in HostArgs :
        Stored(setServerHost(cfg, nvs, host),
               [op |-> "setServerHost", host |-> host, before |-> Before])

CallSetServerPort ==
    \E port \in PortArgs :
        Stored(setServerPort(cfg, nvs, port),
               [op |-> "setServerPort", port |-> port, before |-> Before])

CallSetImageEndpoint ==
    \E endpoint \in EndpointArgs :
        Stored(setImageEndpoint(cfg, nvs, endpoint),
               [op |-> "setImageEndpoint", endpoint |-> endpoint, before |-> Before])

CallSetSleepMinutes ==
    \E minutes \in SleepArgs :
        Stored(setSleepMinutes(cfg, nvs, minutes),
               [op |-> "setSleepMinutes", minutes |-> minutes, before |-> Before])

CallSetActiveStartHour ==
    \E hour \in HourArgs :
        Stored(setActiveStartHour(cfg, nvs, hour),
               [op |-> "setActiveStartHour", hour |-> hour, before |-> Before])

CallSetActiveEndHour ==
    \E hour \in HourArgs :
        Stored(setActiveEndHour(cfg, nvs, hour),
               [op |-> "setActiveEndHour", hour |-> hour, before |-> Before])

CallSetTimezoneOffsetMinutes ==
    \E minutes \in OffsetArgs :
        Stored(setTimezoneOffsetMinutes(cfg, nvs, minutes),
               [op |-> "setTimezoneOffsetMinutes", minutes |-> minutes,
                before |-> Before])

\* setConfig with all seven arguments valid, or all seven out of range
CallSetConfig ==
    \E valid \in BOOLEAN :
        Stored(IF valid
               THEN setConfig(cfg, nvs, <<"h">>, 80, <<"x">>, 1, 0, 0, -720)
               ELSE setConfig(cfg, nvs, EmptyStr, 0, EmptyStr, 1441, 24, 24, 841),
               [op |-> "setConfig", valid |-> valid, before |-> Before])

\* setConfig(host, port, endpoint, sleepMinutes) with any mix of acceptable
\* and unacceptable arguments
CallSetConfig4 ==
    \E host \in {EmptyStr, <<"h">>}, port \in PortArgs, minutes \in SleepArgs :
        Stored(setConfig4(cfg, nvs, host, port, <<"x">>, minutes),
               [op |-> "setConfig4", host |-> host, port |-> port,
                endpoint |-> <<"x">>, minutes |-> minutes, before |-> Before])

\* POST /save with the fields of the form
CallHandleSave ==
    \E host \in {EmptyStr, <<"h">>}, n \in FormNumbers :
        Stored(handleSave(cfg, nvs, host, 80, <<"x">>, n),
               [op |-> "handleSave", host |-> host, port |-> 80,
                endpoint |-> <<"x">>, sleep |-> n,
                status |-> handleSave(cfg, nvs, host, 80, <<"x">>, n).status,
                before |-> Before])

\* ConfigServer::handleReset
CallHandleReset ==
    Stored(resetToDefaults(cfg, nvs), [op |-> "resetToDefaults", before |-> Before])

\* a reboot or a wake from deep sleep: ConfigManager::begin()
CallBegin ==
    Stored([cfg |-> configBegin(nvs), nvs |-> nvs],
           [op |-> "begin", before |-> Before])

CallSync ==
    /\ pc = "store"
    /\ \E httpCode \in HttpCodes, parseOk \in BOOLEAN, doc \in RemotePayloads :
         LET r == syncRemoteConfigAndTime(httpCode, parseOk, doc, cfg, nvs, clock)
         IN  /\ cfg' = r.cfg
             /\ nvs' = r.nvs
             /\ clock' = r.clock
             /\ call' = [op |-> "syncRemoteConfigAndTime", httpCode |-> httpCode,
                         parseOk |-> parseOk, doc |-> doc, ok |-> r.ok,
                         before |-> Before]
    /\ UNCHANGED storeFrame

StoreNext ==
    \/ CallSetServerHost
    \/ CallSetServerPort
    \/ CallSetImageEndpoint
    \/ CallSetSleepMinutes
    \/ CallSetActiveStartHour
    \/ CallSetActiveEndHour
    \/ CallSetTimezoneOffsetMinutes
    \/ CallSetConfig
    \/ CallSetConfig4
    \/ CallHandleSave
    \/ CallHandleReset
    \/ CallBegin
    \/ CallSync

StoreSpec == StoreInit /\ [][StoreNext]_vars

(***************************************************************************)
(* The panel driver on its own: any sequence of its operations             *)
(***************************************************************************)
\* the results of the five waits of one refresh()
WaitOutcomes ==
    [reset : WaitResults, ccset : WaitResults, pon : WaitResults,
     drf : WaitResults, pof : WaitResults]
\* image data handed to loadImageData, one byte longer than the buffer: a
\* ramp 0x12, 0x34, 0x56, ... and a white image with a block of two by two
\* pixels at its origin (colours 2 3 in row 0, 5 6 in row 1)
RampImage == [i \in 1..(BUFFER_SIZE + 1) |-> ((i - 1) * \h22 + \h12) % 256]
BlockImage ==
    [i \in 1..(BUFFER_SIZE + 1) |->
        IF i = 1 THEN \h23 ELSE IF i = HalfWidth + 1 THEN \h56 ELSE \h11]
DataArgs == {<<>>, RampImage, BlockImage}
LengthArgs == {0, 1, BUFFER_SIZE, BUFFER_SIZE + 1}
ColorArgs == {0, 1, 6}
\* what the memory behind the buffer may hold
OutsideBytes == {\h00, \hFF}

\* the variables the driver does not touch
panelFrame == <<pc, bootCount, lastImageHash, pendingImageHash, batteryVoltage,
                cfg, nvs, clock, wifi, polls, imageBuffer, responseImageHash,
                contentLength, bytesRead, sleepTimer, trace, panelLog, hashAtBoot,
                cfgAtBoot, nvsAtBoot, check, refreshOk, fetchResult>>

PanelInit ==
    /\ pc = "panel"
    /\ cfg = DefaultConfig
    /\ nvs = EmptyNVS
    /\ clock = 0
    /\ call = NoCall
    /\ PowerOn

\* display.begin(), once per boot
CallDisplayBegin ==
    /\ pc = "panel"
    /\ buffer_ = NullBuffer
    /\ \E allocOk \in BOOLEAN, r \in WaitResults :
         LET b == displayBegin(allocOk, r)
             x == Execute(bus, b.ops)
         IN  /\ buffer_' = b.buffer_
             /\ bus' = x.bus
             /\ powerPin' = IF b.result THEN "HIGH" ELSE powerPin
             /\ call' = [op |-> "begin", allocOk |-> allocOk,
                         waits |-> [reset |-> r], result |-> b.result,
                         log |-> x.log]
    /\ UNCHANGED panelFrame

\* display.loadImageData(data, length); length is at most the size of data
CallLoadImageData ==
    /\ pc = "panel"
    /\ \E data \in DataArgs, length \in LengthArgs :
         /\ buffer_' = loadImageData(buffer_, data, length)
         /\ call' = [op |-> "loadImageData", data |-> data, length |-> length,
                     before |-> buffer_]
    /\ UNCHANGED <<bus, powerPin, panelFrame>>

\* display.fillColor(color)
CallFillColor ==
    /\ pc = "panel"
    /\ \E color \in ColorArgs :
         /\ buffer_' = fillColor(buffer_, color)
         /\ call' = [op |-> "fillColor", color |-> color, before |-> buffer_]
    /\ UNCHANGED <<bus, powerPin, panelFrame>>

\* the image the buffer was last loaded with in full, if nothing but reads
\* followed
LoadedImage ==
    IF call.op = "loadImageData" /\ call.before # NullBuffer
       /\ call.data # <<>> /\ call.length = BUFFER_SIZE
    THEN SubSeq(call.data, 1, BUFFER_SIZE)
    ELSE IF call.op = "getPixel" THEN call.loaded
    ELSE <<>>

\* getPixel(x, y) on an allocated buffer, with coordinates inside the panel
\* and just outside it; a read behind the buffer finds whatever is there.
\* The function has no way to report an error: it returns a value.
CallGetPixel ==
    /\ pc = "panel"
    /\ buffer_ # NullBuffer
    /\ \E x \in 0..DISPLAY_WIDTH, y \in 0..DISPLAY_HEIGHT, outside \in OutsideBytes :
         LET memory == buffer_ \o Rep(HalfWidth + 1, outside)
         IN  call' = [op |-> "getPixel", x |-> x, y |-> y,
                      result |-> getPixel(memory, x, y), failed |-> FALSE,
                      loaded |-> LoadedImage]
    /\ UNCHANGED <<buffer_, bus, powerPin, panelFrame>>

\* display.refresh() on an allocated buffer
CallRefresh ==
    /\ pc = "panel"
    /\ buffer_ # NullBuffer
    /\ \E w \in WaitOutcomes :
         LET x == Execute(bus, refresh(buffer_, w))
         IN  /\ bus' = x.bus
             /\ call' = [op |-> "refresh", waits |-> w, log |-> x.log]
    /\ UNCHANGED <<buffer_, powerPin, panelFrame>>

\* deep sleep and the next wake: the RAM and the lines are as at power-on
PanelPowerCycle ==
    /\ pc = "panel"
    /\ buffer_' = NullBuffer
    /\ bus' = BusOff
    /\ powerPin' = "LOW"
    /\ call' = [op |-> "powerCycle"]
    /\ UNCHANGED panelFrame

PanelNext ==
    \/ CallDisplayBegin
    \/ CallLoadImageData
    \/ CallFillColor
    \/ CallGetPixel
    \/ CallRefresh
    \/ PanelPowerCycle

PanelSpec == PanelInit /\ [][PanelNext]_vars

(***************************************************************************)
(* Properties of the wake cycle                                            *)
(***************************************************************************)
\* the freshness check of this cycle failed (non-200 or unreachable server)
CheckFailed == check.done /\ check.httpCode # HTTP_CODE_OK
\* the freshness check of this cycle returned a body
CheckAnswered == check.done /\ check.httpCode = HTTP_CODE_OK
\* the token the freshness check of this cycle staged, if any
Staged ==
    IF CheckAnswered /\ check.changed /\ Len(check.body) = HASH_LEN
    THEN check.body ELSE EmptyStr
NoPanelOperation == panelLog = <<>> /\ ~Did("display_begin") /\ buffer_ = NullBuffer
CountIssued(op) == Cardinality({i \in 1..Len(panelLog) : panelLog[i] = op})

\* C1 (as stated): every normal-mode wake cycle eventually enters deep sleep,
\* whatever failure occurs during the cycle.
C1_AlwaysReachesDeepSleep == (pc = "connectWiFi") ~> (pc = "asleep")

\* C1 (amended): every normal-mode wake cycle eventually ends, in deep sleep
\* or, only when display.begin() has failed, in a device restart; no failure
\* leaves the cycle stuck or looping.
C1_CycleEndsInSleepOrRestart ==
    /\ (pc = "connectWiFi") ~> (pc \in {"asleep", "restart"})
    /\ [](pc = "restart" /\ ~Did("config_mode") => Did("begin_failed"))

\* a cycle with a failed sync and a refresh timeout has reached deep sleep
C1_Witness == pc = "asleep" /\ Did("sync_failed") /\ refreshOk = "timeout"

\* C2: lastImageHash differs from its value at boot only after a panel
\* refresh has completed successfully (ready signal observed, no timeout)
\* earlier in the same cycle.
C2_CommitOnlyAfterCompletedRefresh ==
    lastImageHash # hashAtBoot => (Issued("DRF") /\ refreshOk = "ready")

\* C3: lastImageHash is never written before display.refresh() has been
\* called and has returned: on every path without a refresh it keeps its
\* value at boot, and the freshness check does not write it.
C3_NoOptimisticCommit ==
    ~(Did("refresh") /\ Did("refresh_returned")) => lastImageHash = hashAtBoot

\* a changed image was announced and staged, the download was incomplete, and
\* the cycle sleeps with the committed hash of boot
C3_Witness ==
    /\ pc = "asleep" /\ check.changed /\ pendingImageHash = TokB
    /\ Did("incomplete") /\ ~Did("refresh") /\ lastImageHash = hashAtBoot

\* C4: when the freshness check returns a 16-character token equal to the
\* committed hash, the cycle downloads nothing, performs no panel operation,
\* releases the network and sleeps; with an invalid clock it sleeps for the
\* refresh interval floored at the minimum.
C4_UnchangedSkipsEverything ==
    (CheckAnswered /\ Len(check.body) = HASH_LEN /\ check.body = hashAtBoot) =>
        /\ pc = "asleep"
        /\ ~Did("fetch") /\ imageBuffer = "none" /\ bytesRead = 0
        /\ NoPanelOperation
        /\ wifi = "off"
        /\ lastImageHash = hashAtBoot
        /\ (~isClockValid(clock) =>
              sleepTimer = (IF cfg.sleepMinutes * 60 > MIN_SLEEP_SECONDS
                            THEN cfg.sleepMinutes * 60 ELSE MIN_SLEEP_SECONDS))

\* the server repeated the committed token while the clock was invalid
C4_Witness ==
    /\ pc = "asleep" /\ CheckAnswered /\ check.body = TokA /\ hashAtBoot = TokA
    /\ ~isClockValid(clock) /\ sleepTimer = cfg.sleepMinutes * 60

\* C5: on a 200 response, a 16-character token equal to the committed hash
\* yields "unchanged" and an empty pending hash; a different 16-character
\* token yields "changed" and is staged as the pending hash (until the
\* commit clears it); a body of any other length yields "changed" and stages
\* nothing.
C5_CheckImageChanged ==
    CheckAnswered =>
        IF Len(check.body) = HASH_LEN
        THEN IF check.body = hashAtBoot
             THEN ~check.changed /\ pendingImageHash = EmptyStr /\ pc = "asleep"
             ELSE /\ check.changed
                  /\ pc # "asleep" \/ Did("fetch")
                  /\ ~Did("commit") => pendingImageHash = check.body
        ELSE /\ check.changed
             /\ pendingImageHash = EmptyStr
             /\ pc # "asleep" \/ Did("fetch")

\* a token different from a non-empty committed hash has just been staged
C5_Witness ==
    /\ pc = "display_begin" /\ CheckAnswered /\ check.body = TokB
    /\ hashAtBoot = TokA /\ pendingImageHash = TokB

\* C6: at a commit, the 16-character token of the fetch response is the one
\* committed; without one the staged token is committed; a mismatch between
\* the two still ends in success with the response's token committed.
C6_CommitPrefersResponseToken ==
    Did("commit") =>
        /\ fetchResult = "true"
        /\ Len(responseImageHash) = HASH_LEN => lastImageHash = responseImageHash
        /\ (Len(responseImageHash) # HASH_LEN /\ Staged # EmptyStr) =>
              lastImageHash = Staged
        /\ (Len(responseImageHash) # HASH_LEN /\ Staged = EmptyStr) =>
              lastImageHash = hashAtBoot

\* the staged token and the response's token differed
C6_Witness ==
    /\ pc = "asleep" /\ Did("commit") /\ Staged = TokA
    /\ responseImageHash = TokA2 /\ lastImageHash = TokA2 /\ fetchResult = "true"

\* C7 (as stated): whenever the freshness check reports "changed", the cycle
\* fetches the content, hands it to the panel driver and commits the token
\* before sleeping.
C7_ChangedAlwaysCommits ==
    (pc = "asleep" /\ check.changed) =>
        Did("fetch") /\ Did("load") /\ Did("refresh") /\ Did("commit")

\* C7 (amended): after "changed" and a successful display.begin(), the cycle
\* attempts the fetch exactly once; the content is handed to the panel, the
\* refresh run once and the token committed only when the download completed,
\* and then whether or not the refresh wait timed out; after a failed fetch
\* nothing is loaded, refreshed or committed.  Nothing is retried.
C7_CommitFollowsCompletedDownload ==
    (pc = "asleep" /\ check.changed) =>
        /\ Count("fetch") = 1 /\ Count("refresh") <= 1 /\ CountIssued("DRF") <= 1
        /\ Did("refresh") <=> (Did("http_get") /\ contentLength > 0
                               /\ bytesRead = contentLength)
        /\ Did("refresh") =>
              /\ Did("load") /\ Did("commit") /\ fetchResult = "true"
              /\ refreshOk \in {"ready", "timeout"}
              /\ Len(responseImageHash) = HASH_LEN => lastImageHash = responseImageHash
              /\ (Len(responseImageHash) # HASH_LEN /\ Staged # EmptyStr) =>
                    lastImageHash = Staged
        /\ ~Did("refresh") =>
              /\ fetchResult = "false" /\ ~Did("load") /\ ~Did("commit")
              /\ ~Issued("DRF")
              /\ lastImageHash = hashAtBoot

\* the refresh wait timed out and the staged token was committed all the same
C7_Witness ==
    /\ pc = "asleep" /\ check.changed /\ refreshOk = "timeout" /\ Did("commit")
    /\ Staged = TokA /\ lastImageHash = TokA /\ hashAtBoot = EmptyStr

\* C8 (as stated): after a failed freshness check the cycle fetches nothing,
\* performs no panel operation and leaves the committed hash unchanged.
C8_FailedCheckIsNoNews ==
    CheckFailed =>
        ~Did("fetch") /\ panelLog = <<>> /\ lastImageHash = hashAtBoot

\* C8 (amended): a failed freshness check is treated as "assume changed":
\* nothing is staged and the check leaves the committed hash alone, but the
\* cycle goes on to display.begin() and the content fetch; the committed hash
\* changes only when the download completed, the refresh was run and the
\* fetch response carried its own 16-character token, which is the one
\* committed.
C8_FailedCheckAssumesChanged ==
    CheckFailed =>
        /\ check.changed
        /\ pendingImageHash = EmptyStr
        /\ pc \in {"display_begin", "restart"} \/ Did("display_begin")
        /\ pc = "asleep" => Did("fetch")
        /\ ~Did("refresh_returned") => lastImageHash = hashAtBoot
        /\ lastImageHash # hashAtBoot =>
              /\ Did("commit")
              /\ Len(responseImageHash) = HASH_LEN
              /\ lastImageHash = responseImageHash

\* after a failed check the image was fetched, shown and its token committed
C8_Witness ==
    /\ pc = "asleep" /\ CheckFailed /\ Did("commit")
    /\ responseImageHash = TokA /\ lastImageHash = TokA /\ hashAtBoot = EmptyStr

\* C9: the pending hash is empty from the start of every wake cycle until the
\* freshness check of that cycle, after an "unchanged" result and after a
\* commit; a non-empty pending hash is the token returned by the freshness
\* check of the same cycle, so that is what a commit from it writes.
C9_PendingIsTransient ==
    /\ ~check.done => pendingImageHash = EmptyStr
    /\ (check.done /\ ~check.changed) => pendingImageHash = EmptyStr
    /\ Did("commit") => pendingImageHash = EmptyStr
    /\ pendingImageHash # EmptyStr =>
          CheckAnswered /\ pendingImageHash = check.body
    /\ (Did("commit") /\ Len(responseImageHash) # HASH_LEN
        /\ lastImageHash # hashAtBoot) =>
          CheckAnswered /\ lastImageHash = check.body

\* in a second cycle, the token staged in that cycle replaced the committed
\* one of the first cycle
C9_Witness ==
    /\ pc = "asleep" /\ bootCount = 2 /\ Did("commit")
    /\ Len(responseImageHash) # HASH_LEN
    /\ hashAtBoot = TokA /\ check.body = TokB /\ lastImageHash = TokB

\* C10: when the WiFi connection fails the cycle goes straight to sleep: no
\* sync, no freshness check, no fetch, no panel operation; the stored
\* configuration and the committed hash are unchanged and the sleep duration
\* is computed from the configuration stored before the cycle.
C10_WiFiFailureSleepsAtOnce ==
    Did("wifi_fail") =>
        /\ pc = "asleep"
        /\ ~Did("sync_ok") /\ ~Did("sync_failed")
        /\ ~check.done /\ ~Did("hash_check")
        /\ ~Did("fetch")
        /\ NoPanelOperation
        /\ wifi = "off"
        /\ cfg = cfgAtBoot /\ nvs = nvsAtBoot
        /\ lastImageHash = hashAtBoot
        /\ sleepTimer = calculateSleepSeconds(cfgAtBoot, clock)

\* a WiFi failure in a cycle that started with a stored, non-default schedule
C10_Witness ==
    /\ pc = "asleep" /\ Did("wifi_fail") /\ nvsAtBoot.written
    /\ cfgAtBoot.sleepMinutes = 30 /\ isClockValid(clock)
    /\ sleepTimer = calculateSleepSeconds(cfgAtBoot, clock)

(***************************************************************************)
(* Properties of the schedule functions                                    *)
(***************************************************************************)
\* the local second of the day at the instant of the call, in 0..86399
LocalSecond == (clock + cfg.timezoneOffsetMinutes * 60) % 86400
StartSecond == cfg.activeStartHour * 3600
EndSecond == cfg.activeEndHour * 3600
\* the active window as the specification words it
RefWithin ==
    IF cfg.activeStartHour = cfg.activeEndHour THEN TRUE
    ELSE IF cfg.activeStartHour < cfg.activeEndHour
    THEN StartSecond <= LocalSecond /\ LocalSecond < EndSecond
    ELSE LocalSecond >= StartSecond \/ LocalSecond < EndSecond
\* forward distance to the next start of the window, in 1..86400
RefUntilStart ==
    LET d == (StartSecond - LocalSecond) % 86400 IN IF d = 0 THEN 86400 ELSE d
\* forward distance to the end of the window, in 0..86399
RefUntilEnd == (EndSecond - LocalSecond) % 86400
Floored(n) == IF n > MIN_SLEEP_SECONDS THEN n ELSE MIN_SLEEP_SECONDS
ValidSchedule ==
    /\ cfg.sleepMinutes \in 1..1440
    /\ cfg.activeStartHour \in 0..23 /\ cfg.activeEndHour \in 0..23
    /\ cfg.timezoneOffsetMinutes \in -720..840
AtLocal(h, m) == cfg.timezoneOffsetMinutes = 0 /\ LocalSecond = h * 3600 + m * 60

\* C13: isWithinActiveWindow is true when start = end, is start <= t < end for
\* a window within the day and t >= start or t < end for a window across
\* midnight, t being the local second of the day in 0..86399, also for
\* instants whose local time is negative; 8..20: 08:00 and 19:59 active,
\* 20:00 and 07:59 not; 20..8: 23:00 active, 12:00 not.
C13_ActiveWindow ==
    call.op = "isWithinActiveWindow" =>
        /\ call.result = RefWithin
        /\ (cfg.activeStartHour = 8 /\ cfg.activeEndHour = 20) =>
              /\ (AtLocal(8, 0) \/ AtLocal(19, 59)) => call.result
              /\ (AtLocal(20, 0) \/ AtLocal(7, 59)) => ~call.result
        /\ (cfg.activeStartHour = 20 /\ cfg.activeEndHour = 8) =>
              /\ AtLocal(23, 0) => call.result
              /\ AtLocal(12, 0) => ~call.result

\* a window across midnight, asked at an instant whose local time is negative
C13_Witness ==
    /\ call.op = "isWithinActiveWindow" /\ call.result
    /\ cfg.activeStartHour = 20 /\ cfg.activeEndHour = 8
    /\ clock + cfg.timezoneOffsetMinutes * 60 < 0 /\ LocalSecond = 23 * 3600

\* C14: for a valid configuration, calculateSleepSeconds is the floored
\* refresh interval when the clock is invalid; the floored distance to the
\* next window start when the clock is valid and the time is outside the
\* window; inside the window the floored refresh interval when it is strictly
\* less than the time left in the window, else the floored distance to the
\* next window start.
C14_SleepDuration ==
    (call.op = "calculateSleepSeconds" /\ ValidSchedule) =>
        call.result =
            IF ~isClockValid(clock) THEN Floored(cfg.sleepMinutes * 60)
            ELSE IF ~RefWithin THEN Floored(RefUntilStart)
            ELSE IF cfg.activeStartHour = cfg.activeEndHour
                    \/ cfg.sleepMinutes * 60 < RefUntilEnd
            THEN Floored(cfg.sleepMinutes * 60)
            ELSE Floored(RefUntilStart)

\* at 19:59:00 in the window 8..20 a refresh after 15 minutes would be too
\* late: the device sleeps the 12 hours and 1 minute to the next 08:00
C14_Witness ==
    /\ call.op = "calculateSleepSeconds" /\ isClockValid(clock)
    /\ cfg.activeStartHour = 8 /\ cfg.activeEndHour = 20 /\ cfg.sleepMinutes = 15
    /\ AtLocal(19, 59) /\ call.result = 12 * 3600 + 60

\* C15: calculateSleepSeconds never returns less than MIN_SLEEP_SECONDS,
\* whatever the clock, the offset and the stored configuration.
C15_SleepFloor ==
    call.op = "calculateSleepSeconds" => call.result >= MIN_SLEEP_SECONDS

\* one second before the window opens the device still sleeps a full minute
C15_Witness ==
    /\ call.op = "calculateSleepSeconds" /\ isClockValid(clock)
    /\ ~RefWithin /\ RefUntilStart = 1 /\ call.result = MIN_SLEEP_SECONDS

\* C16: secondsUntilNextActiveWindow returns the forward distance d to the
\* next local start hour: 1 <= d <= 86400 and the local second plus d is the
\* start second modulo a day; exactly at the start hour it is 86400.
C16_UntilNextStart ==
    call.op = "secondsUntilNextActiveWindow" =>
        /\ call.result >= 1 /\ call.result <= 86400
        /\ (LocalSecond + call.result) % 86400 = StartSecond
        /\ LocalSecond = StartSecond => call.result = 86400

\* asked exactly at the start hour
C16_Witness ==
    /\ call.op = "secondsUntilNextActiveWindow"
    /\ LocalSecond = StartSecond /\ StartSecond = 8 * 3600
    /\ call.result = 86400

\* C17: secondsUntilWindowEnd returns UINT32_MAX when start = end and
\* otherwise, inside or outside the window, the forward distance d to the
\* local end hour, 0 <= d <= 86400, the local second plus d being the end
\* second modulo a day; never a wrapped negative difference.
C17_UntilWindowEnd ==
    call.op = "secondsUntilWindowEnd" =>
        IF cfg.activeStartHour = cfg.activeEndHour
        THEN call.result = UINT32_MAX
        ELSE /\ call.result >= 0 /\ call.result <= 86400
             /\ (LocalSecond + call.result) % 86400 = EndSecond

(***************************************************************************)
(* Properties of the remote sync and of the configuration store            *)
(***************************************************************************)
IsSync == call.op = "syncRemoteConfigAndTime"
HasKey(k) == k \in call.doc.keys
\* the value a schedule field must have after a successful sync
Overridden(k, v, lo, hi, old) == IF HasKey(k) /\ v >= lo /\ v <= hi THEN v ELSE old
ScheduleInvariant(c) ==
    /\ c.sleepMinutes >= 1 /\ c.sleepMinutes <= 1440
    /\ c.activeStartHour >= 0 /\ c.activeStartHour <= 23
    /\ c.activeEndHour >= 0 /\ c.activeEndHour <= 23

\* C11: a failed sync (non-200 response, unparsable JSON, or a payload
\* without server_time_epoch, whatever else it holds) leaves every field of
\* the configuration, the store and the clock unchanged.
C11_FailedSyncChangesNothing ==
    (IsSync /\ (call.httpCode # HTTP_CODE_OK \/ ~call.parseOk
                \/ ~HasKey("server_time_epoch"))) =>
        /\ ~call.ok
        /\ cfg = call.before.cfg
        /\ nvs = call.before.nvs
        /\ clock = call.before.clock

\* a well-formed payload with valid schedule fields but no time was refused
C11_Witness ==
    /\ IsSync /\ call.httpCode = HTTP_CODE_OK /\ call.parseOk
    /\ ~HasKey("server_time_epoch") /\ HasKey("active_start_hour")
    /\ call.doc.active_start_hour = 7 /\ cfg.activeStartHour = 8
    /\ ~nvs.written /\ clock = 0 /\ ~call.ok

\* C12: once the sync of the cycle is over, if the clock is valid and the
\* local time is outside the active window of the configuration then in
\* force, the cycle makes no freshness check, no fetch and no panel
\* operation, releases the network and sleeps.
C12_QuietHoursSkipEverything ==
    ((Did("sync_ok") \/ Did("sync_failed")) /\ pc # "quiet"
     /\ isClockValid(clock)
     /\ ~isWithinActiveWindow(clock, cfg.activeStartHour, cfg.activeEndHour,
                              cfg.timezoneOffsetMinutes)) =>
        /\ pc = "asleep" /\ Did("quiet_hours")
        /\ ~check.done /\ ~Did("hash_check")
        /\ ~Did("fetch")
        /\ NoPanelOperation
        /\ wifi = "off"
        /\ lastImageHash = hashAtBoot

\* the override received in this cycle moved the window: the stored window
\* would have been active, the new one is not
C12_Witness ==
    /\ pc = "asleep" /\ Did("quiet_hours") /\ Did("sync_ok")
    /\ cfg # cfgAtBoot /\ isClockValid(clock)
    /\ isWithinActiveWindow(clock, cfgAtBoot.activeStartHour,
                            cfgAtBoot.activeEndHour, cfgAtBoot.timezoneOffsetMinutes)
    /\ ~isWithinActiveWindow(clock, cfg.activeStartHour, cfg.activeEndHour,
                             cfg.timezoneOffsetMinutes)

Slashed(endpoint) == IF endpoint[1] = "/" THEN endpoint ELSE <<"/">> \o endpoint
\* the four supplied fields are all in force in the record c
AllApplied(c) ==
    /\ c.serverHost = call.host
    /\ c.serverPort = call.port
    /\ c.imageEndpoint = Slashed(call.endpoint)
    /\ c.sleepMinutes = call.minutes

\* C21: setConfig is atomic: after the call the configuration in memory and
\* in the store is either entirely the one before the call, or has every
\* supplied field applied; never only some of them.
C21_SetConfigAtomic ==
    call.op = "setConfig4" =>
        \/ cfg = call.before.cfg /\ nvs = call.before.nvs
        \/ AllApplied(cfg) /\ nvs.written /\ AllApplied(nvs.data)

(***************************************************************************)
(* Properties of the panel driver                                          *)
(***************************************************************************)
IsTransfer(entry) == entry.e.op = "transfer"
\* the controllers selected while a byte is clocked out
Target(b) ==
    IF b.PIN_CS_MASTER = "LOW" /\ b.PIN_CS_SLAVE = "LOW" THEN "both"
    ELSE IF b.PIN_CS_MASTER = "LOW" THEN "master"
    ELSE IF b.PIN_CS_SLAVE = "LOW" THEN "slave"
    ELSE "none"
\* the bytes on the SPI bus, each with the level of DC (LOW: a command) and
\* the controllers that were selected
Wire(log) ==
    LET t == SelectSeq(log, IsTransfer)
    IN  [i \in 1..Len(t) |->
            [byte |-> t[i].e.byte, dc |-> t[i].bus.PIN_DC, target |-> Target(t[i].bus)]]
IsCommandByte(w) == w.dc = "LOW"
\* the command opcodes, in order
Commands(log) ==
    LET c == SelectSeq(Wire(log), IsCommandByte) IN [i \in 1..Len(c) |-> c[i].byte]
\* the pulses on the reset line: the positions in the log where it is driven LOW
ResetPulses(log) ==
    {i \in 1..Len(log) : /\ log[i].e.op = "digitalWrite"
                         /\ log[i].e.pin = "PIN_RESET" /\ log[i].e.level = "LOW"}
FirstTransfer(log) ==
    CHOOSE i \in 1..Len(log) : IsTransfer(log[i]) /\ \A j \in 1..(i - 1) : ~IsTransfer(log[j])
\* a command with its data as it must appear on the bus
OnWire(cmd, data, target) ==
    <<[byte |-> cmd, dc |-> "LOW", target |-> target]>>
    \o [i \in 1..Len(data) |-> [byte |-> data[i], dc |-> "HIGH", target |-> target]]
InitCommands ==
    <<\h74, \hF0, \h00, \h50, \h60, \h86, \hE3, \h61,
      \h01, \hB6, \h06, \hB7, \h05, \hB0, \hB1>>
\* the data bytes that follow the command at position i of the wire w
DataAfter(w, i) ==
    LET stop == CHOOSE j \in (i + 1)..(Len(w) + 1) :
                    /\ j = Len(w) + 1 \/ w[j].dc = "LOW"
                    /\ \A k \in (i + 1)..(j - 1) : w[k].dc = "HIGH"
    IN  [k \in 1..(stop - i - 1) |-> w[i + k].byte]
\* the positions of the data start command 0x10 addressed to `target`
DataStarts(w, target) ==
    {i \in 1..Len(w) : w[i].dc = "LOW" /\ w[i].byte = \h10 /\ w[i].target = target}
StreamTo(w, target) == DataAfter(w, CHOOSE i \in DataStarts(w, target) : TRUE)

\* C22: every refresh() runs the whole sequence once and in order: one
\* hardware reset before anything is sent, the fifteen initialization
\* commands, the data transfer (0xE0, then 0x10 with the stream of the
\* primary, then 0x10 with the stream of the secondary), power-on 0x04 and
\* the refresh trigger 0x12, power-off 0x02, and the sleep command 0x07;
\* whatever the waits returned.
C22_RefreshRunsWholeSequence ==
    call.op = "refresh" =>
        LET w == Wire(call.log)
        IN  /\ Commands(call.log) =
                  InitCommands \o <<\hE0, \h10, \h10, \h04, \h12, \h02, \h07>>
            /\ Cardinality(ResetPulses(call.log)) = 1
            /\ \A i \in ResetPulses(call.log) : i < FirstTransfer(call.log)
            /\ Cardinality(DataStarts(w, "master")) = 1
            /\ Cardinality(DataStarts(w, "slave")) = 1
            /\ \A i \in DataStarts(w, "master"), j \in DataStarts(w, "slave") : i < j
            /\ Len(StreamTo(w, "master")) = (DISPLAY_WIDTH * DISPLAY_HEIGHT) \div 4
            /\ Len(StreamTo(w, "slave")) = (DISPLAY_WIDTH * DISPLAY_HEIGHT) \div 4

\* a refresh all of whose waits timed out sent every command
C22_Witness ==
    /\ call.op = "refresh"
    /\ \A k \in DOMAIN call.waits : call.waits[k] = "timeout"
    /\ Len(Commands(call.log)) = Len(InitCommands) + 7

\* C23: in every refresh() the trigger 0x12 is issued exactly once, and what
\* follows its data byte on the bus is exactly power-off 0x02 (data 0x00)
\* and then sleep 0x07 with data 0xA5, to both controllers, whether the wait
\* for the end of the refresh returned ready or timed out.
C23_CleanupAfterRefreshWait ==
    call.op = "refresh" =>
        LET w == Wire(call.log)
            triggers == {i \in 1..Len(w) : w[i].dc = "LOW" /\ w[i].byte = \h12}
        IN  /\ Cardinality(triggers) = 1
            /\ \A i \in triggers :
                 SubSeq(w, i + 1, Len(w)) =
                     <<[byte |-> \h01, dc |-> "HIGH", target |-> "both"]>>
                     \o OnWire(\h02, POF_DATA, "both")
                     \o OnWire(\h07, SLEEP_DATA, "both")
            /\ \E i \in 1..Len(call.log) :
                 /\ call.log[i].e.op = "waitUntilIdle"
                 /\ call.log[i].e.timeoutMs = 60000
                 /\ call.log[i].e.result = call.waits.drf

\* the wait for the end of the refresh timed out, the panel was powered off
\* and put to sleep all the same
C23_Witness ==
    /\ call.op = "refresh" /\ call.waits.drf = "timeout" /\ call.waits.pon = "ready"
    /\ Commands(call.log)[Len(Commands(call.log))] = \h07
    /\ Target(bus) = "none"

\* C24: when the wait of the hardware reset times out, begin() and
\* refresh() stop there: nothing more is sent to the panel, and begin()
\* does not return true.
C24_ResetTimeoutIsHardFailure ==
    (call.op \in {"begin", "refresh"} /\ call.waits.reset = "timeout") =>
        /\ Commands(call.log) = <<>>
        /\ call.op = "begin" => ~call.result

\* the part of the log that belongs to the initialization sequence: what
\* precedes the command 0xE0 of transferData
InitLog(log) ==
    LET ends == {i \in 1..Len(log) : /\ IsTransfer(log[i]) /\ log[i].bus.PIN_DC = "LOW"
                                     /\ log[i].e.byte = \hE0}
    IN  IF ends = {} THEN log ELSE SubSeq(log, 1, (CHOOSE i \in ends : TRUE) - 1)
InitWire(log) == Wire(InitLog(log))
\* the last transfer before position i of the log, 0 if none
LastTransferBefore(log, i) ==
    LET s == {j \in 1..(i - 1) : IsTransfer(log[j])}
    IN  IF s = {} THEN 0 ELSE CHOOSE j \in s : \A k \in s : k <= j
\* before each command byte, after the byte before it, there is a moment
\* when no controller is selected
IdleBetweenCommands(log) ==
    \A i \in 1..Len(log) :
        (IsTransfer(log[i]) /\ log[i].bus.PIN_DC = "LOW") =>
            \E j \in (LastTransferBefore(log, i) + 1)..(i - 1) :
                Target(log[j].bus) = "none"

\* C25: the initialization sequence, in begin() and in refresh(), puts on the
\* bus 0x74 for the primary alone, then 0xF0, 0x00, 0x50, 0x60, 0x86, 0xE3,
\* 0x61 for both controllers (both selected for the command and all its
\* data), then 0x01, 0xB6, 0x06, 0xB7, 0x05, 0xB0, 0xB1 for the primary
\* alone (the secondary not selected), and no controller is selected between
\* two commands.
C25_InitTargets ==
    ((call.op = "begin" /\ call.result) \/ call.op = "refresh") =>
        /\ InitWire(call.log) =
              OnWire(\h74, R74_DATA, "master")
              \o OnWire(\hF0, RF0_DATA, "both")
              \o OnWire(\h00, PSR_DATA, "both")
              \o OnWire(\h50, CDI_DATA, "both")
              \o OnWire(\h60, R60_DATA, "both")
              \o OnWire(\h86, R86_DATA, "both")
              \o OnWire(\hE3, PWS_DATA, "both")
              \o OnWire(\h61, TRES_DATA, "both")
              \o OnWire(\h01, PWR_DATA, "master")
              \o OnWire(\hB6, RB6_DATA, "master")
              \o OnWire(\h06, BTST_P_DATA, "master")
              \o OnWire(\hB7, RB7_DATA, "master")
              \o OnWire(\h05, BTST_N_DATA, "master")
              \o OnWire(\hB0, RB0_DATA, "master")
              \o OnWire(\hB1, RB1_DATA, "master")
        /\ IdleBetweenCommands(InitLog(call.log))

\* begin() on lines that were never driven, its reset wait timed out
C25_Witness ==
    /\ call.op = "begin" /\ call.result /\ call.waits.reset = "timeout"
    /\ Commands(call.log) = InitCommands
    /\ bus.PIN_CS_SLAVE = "HIGH" /\ bus.PIN_CS_MASTER = "HIGH"

\* the pixel at (x, y) of a buffer: the high nibble of its byte when x is
\* even, the low nibble when x is odd
RefNibble(buf, x, y) ==
    LET b == buf[(y * DISPLAY_WIDTH + x) \div 2 + 1]
    IN  IF x % 2 = 0 THEN b \div 16 ELSE b % 16
\* the stream of a controller for the block image, computed by hand: white
\* but for the first byte of the rows that carry buffer columns 1 and 0
BlockStream ==
    [k \in 1..((DISPLAY_WIDTH * DISPLAY_HEIGHT) \div 4) |->
        IF k = (DISPLAY_WIDTH - 1) * (DISPLAY_HEIGHT \div 4) + 1 THEN \h25
        ELSE IF k = (DISPLAY_WIDTH - 2) * (DISPLAY_HEIGHT \div 4) + 1 THEN \h36
        ELSE \h11]

C27_LoadThenGetPixel ==
    /\ (call.op = "loadImageData" /\ LoadedImage # <<>>) => buffer_ = LoadedImage
    /\ (call.op = "getPixel" /\ call.loaded # <<>>
        /\ call.x < DISPLAY_WIDTH /\ call.y < DISPLAY_HEIGHT) =>
            LET B == call.loaded
                byte == B[(call.y * DISPLAY_WIDTH + call.x) \div 2 + 1]
            IN  /\ buffer_ = B
                /\ call.result = IF call.x % 2 = 0 THEN byte \div 16 ELSE byte % 16

\* the last pixel of the ramp was read back
C27_Witness ==
    /\ call.op = "getPixel" /\ call.loaded = SubSeq(RampImage, 1, BUFFER_SIZE)
    /\ call.x = DISPLAY_WIDTH - 1 /\ call.y = DISPLAY_HEIGHT - 1
    /\ call.result = RampImage[BUFFER_SIZE] % 16
    /\ call.result # RampImage[BUFFER_SIZE] \div 16

\* C28: loadImageData(data, n) keeps the buffer at its size; with n above
\* the capacity the buffer becomes the first BUFFER_SIZE bytes of data; with
\* n at most the capacity bytes [0, n) are those of data and bytes
\* [n, capacity) are unchanged; with no data or no buffer nothing changes.
C28_LoadWithinBuffer ==
    call.op = "loadImageData" =>
        /\ Len(buffer_) = Len(call.before)
        /\ (call.before = NullBuffer \/ call.data = <<>>) => buffer_ = call.before
        /\ (call.before # NullBuffer /\ call.data # <<>>) =>
              IF call.length > BUFFER_SIZE
              THEN buffer_ = SubSeq(call.data, 1, BUFFER_SIZE)
              ELSE \A i \in 1..BUFFER_SIZE :
                      buffer_[i] = IF i <= call.length THEN call.data[i]
                                   ELSE call.before[i]

\* one byte too many was offered: the buffer took the first BUFFER_SIZE
C28_Witness ==
    /\ call.op = "loadImageData" /\ call.length = BUFFER_SIZE + 1
    /\ call.data = RampImage /\ call.before = SubSeq(BlockImage, 1, BUFFER_SIZE)
    /\ buffer_ = SubSeq(RampImage, 1, BUFFER_SIZE)

\* C29: getPixel(x, y) with x >= width or y >= height signals an error
\* instead of returning a value.
C29_GetPixelFailsFast ==
    (call.op = "getPixel" /\ (call.x >= DISPLAY_WIDTH \/ call.y >= DISPLAY_HEIGHT)) =>
        call.failed

(***************************************************************************)
(* Allocation failures in the wake cycle                                   *)
(***************************************************************************)
\* C30 as stated: when display.begin() or fetchAndDisplayImage() cannot
\* allocate its buffer, nothing at all is issued to the panel in the cycle,
\* the committed hash is unchanged and the cycle goes to deep sleep.
C30_AllocationFailureSleeps ==
    (Did("begin_failed") \/ Did("alloc_failed")) =>
        /\ panelLog = <<>>
        /\ lastImageHash = hashAtBoot
        /\ pc = "asleep"

\* C30 as amended: a failed allocation in display.begin() issues nothing to
\* the panel, leaves the committed hash alone and ends the cycle in a device
\* restart, with no sleep timer armed; a failed allocation of the download
\* buffer comes after the reset and the initialization of display.begin(),
\* issues nothing further (no data, no power-on, no refresh trigger), leaves
\* the committed hash alone and ends the cycle in deep sleep.
C30_AllocationFailureAbortsDisplay ==
    /\ Did("begin_failed") =>
          /\ panelLog = <<>> /\ buffer_ = NullBuffer
          /\ lastImageHash = hashAtBoot
          /\ pc = "restart" /\ sleepTimer = 0 /\ wifi = "off"
          /\ ~Did("fetch")
    /\ Did("alloc_failed") =>
          /\ panelLog = <<"RESET", "INIT">>
          /\ lastImageHash = hashAtBoot
          /\ pc = "asleep" /\ sleepTimer >= MIN_SLEEP_SECONDS /\ wifi = "off"
          /\ fetchResult = "false" /\ imageBuffer = "none"

\* with an image committed in an earlier cycle and a new one announced, the
\* download buffer could not be allocated: the cycle sleeps, the hash stays
C30_Witness ==
    /\ Did("alloc_failed") /\ pc = "asleep"
    /\ check.changed /\ CheckAnswered
    /\ lastImageHash # EmptyStr /\ lastImageHash = hashAtBoot
    /\ panelLog = <<"RESET", "INIT">>

(***************************************************************************)
(* Properties of the end of a wake cycle                                   *)
(***************************************************************************)
\* the position of the first occurrence of e in the trace, 0 if there is none
FirstAt(e) ==
    IF Did(e) THEN CHOOSE i \in 1..Len(trace) :
                       trace[i] = e /\ \A j \in 1..(i - 1) : trace[j] # e
    ELSE 0
\* e happened, and d happened before it
Precedes(d, e) == Did(d) /\ Did(e) /\ FirstAt(d) < FirstAt(e)

\* C31: when display.begin() returns false the cycle releases the network and
\* restarts the device: it does not enter deep sleep, arms no sleep timer,
\* fetches nothing, issues nothing to the panel and leaves the committed hash
\* as it was when the cycle started
C31_BeginFailureRestarts ==
    Did("begin_failed") =>
        /\ pc = "restart"
        /\ wifi = "off"
        /\ Precedes("wifi_off", "restart")
        /\ ~Did("deep_sleep")
        /\ sleepTimer = 0
        /\ ~Did("fetch")
        /\ ~Did("http_get")
        /\ panelLog = <<>>
        /\ lastImageHash = hashAtBoot

\* a cycle in which display.begin() has failed
C31_Witness ==
    /\ Did("begin_failed")
    /\ Did("hash_check")
    /\ pc = "restart"

\* the operations of refresh() that put pixel data on the panel or show it
ShowingOps == {"DTM_MASTER", "DTM_SLAVE", "PON", "DRF"}
Showing == \E op \in ShowingOps : Issued(op)
\* the buffer of the driver as begin() leaves it
BlankBuffer == displayBegin(TRUE, "ready").buffer_

\* C32: the display buffer is loaded, and pixel data is transferred and
\* refreshed, only after the download has finished in full (bytes read equal
\* the declared length, which is in 1..BUFFER_SIZE) and the HTTP connection
\* has been closed; while a download is in progress, and after an HTTP error,
\* an invalid length or an incomplete download, nothing is loaded or shown
C32_FetchThenRefresh ==
    /\ Did("load") =>
          /\ Precedes("http_get", "http_end")
          /\ Precedes("http_end", "load")
          /\ bytesRead = contentLength
          /\ contentLength \in 1..BUFFER_SIZE
    /\ Did("refresh") => Precedes("load", "refresh")
    /\ Showing => Did("refresh")
    /\ pc = "download" => ~Did("load") /\ ~Did("refresh") /\ ~Showing
    /\ (Did("http_error") \/ Did("bad_length") \/ Did("incomplete")) =>
          /\ ~Did("load")
          /\ ~Did("refresh")
          /\ ~Showing
          /\ buffer_ = BlankBuffer

\* a complete download that was loaded and shown
C32_Witness ==
    /\ Did("load")
    /\ Issued("DTM_MASTER")
    /\ Issued("DRF")
    /\ contentLength = BUFFER_SIZE
    /\ buffer_ = ServerImage

\* what made the cycle go to sleep
SleepCauses == {"wifi_fail", "quiet_hours", "hash_check", "fetch_failed", "commit"}

\* C33: on every path into deep sleep (WiFi failure, quiet hours, unchanged
\* content, failed or completed fetch and display) the network was released
\* before the sleep duration was computed, the timer is armed with the
\* computed duration before sleep is entered, and the display power line is
\* low
C33_SleepReleasesNetwork ==
    (pc = "asleep" \/ Did("deep_sleep")) =>
        /\ pc = "asleep"
        /\ \E e \in SleepCauses : Precedes(e, "wifi_off")
        /\ wifi = "off"
        /\ Precedes("wifi_off", "calc_sleep")
        /\ Precedes("calc_sleep", "timer_armed")
        /\ Precedes("timer_armed", "power_low")
        /\ Precedes("power_low", "deep_sleep")
        /\ sleepTimer = calculateSleepSeconds(cfg, clock)
        /\ sleepTimer >= MIN_SLEEP_SECONDS
        /\ powerPin = "LOW"

\* asleep after the panel was powered and an image shown, with a sleep longer
\* than the floor
C33_Witness ==
    /\ pc = "asleep"
    /\ Did("commit")
    /\ Did("display_begin")
    /\ wifi = "off"
    /\ powerPin = "LOW"
    /\ sleepTimer > MIN_SLEEP_SECONDS

\* what the cycle does on the network and on the panel
NetworkEvents ==
    {"wifi_begin", "wifi_connected", "wifi_fail", "wifi_off", "sync_ok",
     "sync_failed", "hash_check", "fetch", "http_get", "http_error",
     "bad_length", "http_end"}
PanelEvents == {"display_begin", "begin_ok", "load", "refresh", "refresh_returned"}
\* every network and panel operation of the trace comes after e
BeforeAllActivity(e) ==
    \A i \in 1..Len(trace) :
        trace[i] \in NetworkEvents \cup PanelEvents => Did(e) /\ FirstAt(e) < i

\* the state part of C34
BootOrdering ==
    /\ trace # <<>> => Count("button_sample") = 1
    /\ BeforeAllActivity("button_sample")
    /\ ~Did("config_mode") => BeforeAllActivity("battery")
    /\ Did("battery") => \A i \in 1..(FirstAt("battery") - 1) :
                             trace[i] \notin NetworkEvents \cup PanelEvents
    /\ (wifi # "off" \/ panelLog # <<>>) => Did("button_sample")
    /\ pc = "boot" => wifi = "off" /\ panelLog = <<>> /\ trace = <<>>
    /\ Did("config_mode") =>
          /\ call.op = "checkConfigButton"
          /\ call.result
          /\ \A i \in 1..ButtonSamples : call.reads[i] = "LOW"
          /\ (ButtonSamples - 2) * BUTTON_POLL_MS >= CONFIG_BUTTON_HOLD_MS
          /\ ~Did("battery")
          /\ panelLog = <<>>
    /\ Did("battery") => pc # "config_mode" /\ ~Did("config_mode")

WakeSecond == (LocalSecond + call.result) % 86400
\* that second lies in the active window: start <= t < end, with wrap
WakeInWindow ==
    IF cfg.activeStartHour = cfg.activeEndHour THEN TRUE
    ELSE IF cfg.activeStartHour < cfg.activeEndHour
    THEN StartSecond <= WakeSecond /\ WakeSecond < EndSecond
    ELSE WakeSecond >= StartSecond \/ WakeSecond < EndSecond

\* C35: with a valid clock and a valid configuration, now plus the result of
\* calculateSleepSeconds lies in the active window, whether now is inside or
\* outside the window and also when the result is the 60-second floor
C35_NextWakeInWindow ==
    (call.op = "calculateSleepSeconds" /\ isClockValid(clock) /\ ValidSchedule) =>
        /\ call.result > 0
        /\ WakeInWindow

\* one second before the window 8..20 opens the floor applies: the device
\* wakes at 08:00:59
C35_Witness ==
    /\ call.op = "calculateSleepSeconds" /\ isClockValid(clock) /\ ValidSchedule
    /\ cfg.activeStartHour = 8 /\ cfg.activeEndHour = 20
    /\ ~RefWithin
    /\ LocalSecond = 8 * 3600 - 1
    /\ call.result = MIN_SLEEP_SECONDS
    /\ WakeSecond = 8 * 3600 + 59

(***************************************************************************)
(* Properties of the data transfer                                         *)
(***************************************************************************)
\* the coordinates handed to getPixel for the bytes clocked out to `target`,
\* in order
PixelReads(log, target) ==
    LET t == SelectSeq(log, LAMBDA entry :
                 /\ IsTransfer(entry)
                 /\ "reads" \in DOMAIN entry.e
                 /\ Target(entry.bus) = target)
    IN  [k \in 1..(2 * Len(t)) |-> t[(k + 1) \div 2].e.reads[((k - 1) % 2) + 1]]
\* how many times pixel (x, y) occurs in the sequence of reads r
TimesRead(r, x, y) == Cardinality({k \in 1..Len(r) : r[k] = <<x, y>>})

\* C36: one transferData sends every pixel of the buffer exactly once: pixel
\* (x, y) goes to the primary iff y < H/2 and to the secondary iff y >= H/2,
\* each stream carries W * H/4 bytes, no byte of pixel data goes to both or
\* to neither controller, and every coordinate read lies in 0..W-1 x 0..H-1
C36_EveryPixelOnce ==
    call.op = "refresh" =>
        LET w == Wire(call.log)
            W == DISPLAY_WIDTH
            H == DISPLAY_HEIGHT
            toMaster == PixelReads(call.log, "master")
            toSlave == PixelReads(call.log, "slave")
        IN  /\ Cardinality(DataStarts(w, "master")) = 1
            /\ Cardinality(DataStarts(w, "slave")) = 1
            /\ Len(StreamTo(w, "master")) = W * (H \div 4)
            /\ Len(StreamTo(w, "slave")) = W * (H \div 4)
            /\ Len(toMaster) = 2 * Len(StreamTo(w, "master"))
            /\ Len(toSlave) = 2 * Len(StreamTo(w, "slave"))
            /\ PixelReads(call.log, "both") = <<>>
            /\ PixelReads(call.log, "none") = <<>>
            /\ \A x \in 0..(W - 1), y \in 0..(H - 1) :
                 /\ TimesRead(toMaster, x, y) = IF y < H \div 2 THEN 1 ELSE 0
                 /\ TimesRead(toSlave, x, y) = IF y >= H \div 2 THEN 1 ELSE 0
            /\ \A k \in 1..Len(toMaster) :
                 toMaster[k][1] \in 0..(W - 1) /\ toMaster[k][2] \in 0..(H - 1)
            /\ \A k \in 1..Len(toSlave) :
                 toSlave[k][1] \in 0..(W - 1) /\ toSlave[k][2] \in 0..(H - 1)

\* a refresh of the ramp image: the last pixel of the buffer went to the
\* secondary, the first one to the primary
C36_Witness ==
    /\ call.op = "refresh"
    /\ buffer_ = SubSeq(RampImage, 1, BUFFER_SIZE)
    /\ TimesRead(PixelReads(call.log, "slave"), DISPLAY_WIDTH - 1, DISPLAY_HEIGHT - 1) = 1
    /\ TimesRead(PixelReads(call.log, "master"), 0, 0) = 1

\* the positions in the log of the data start command 0x10
DataStartsInLog(log) ==
    {i \in 1..Len(log) : /\ IsTransfer(log[i])
                         /\ log[i].e.byte = \h10
                         /\ log[i].bus.PIN_DC = "LOW"}
\* the positions in the log of the bytes of pixel data
PixelBytesInLog(log) ==
    {i \in 1..Len(log) : IsTransfer(log[i]) /\ "reads" \in DOMAIN log[i].e}
\* the lines at position i of the log select `one` controller and not `other`
OnlySelected(log, i, one, other) ==
    log[i].bus[one] = "LOW" /\ log[i].bus[other] = "HIGH"

\* C37: in a refresh there are two pixel-data streams; from the command 0x10
\* of the first to its last data byte only the chip select of the primary is
\* asserted, from the command 0x10 of the second to its last data byte only
\* that of the secondary, and when refresh() returns both chip selects are
\* deasserted
C37_OneChipSelectPerStream ==
    call.op = "refresh" =>
        LET log == call.log
            starts == DataStartsInLog(log)
            first == CHOOSE i \in starts : \A j \in starts : i <= j
            second == CHOOSE i \in starts : \A j \in starts : j <= i
            n == (DISPLAY_WIDTH * DISPLAY_HEIGHT) \div 4
        IN  /\ Cardinality(starts) = 2
            \* command, DC raised, then the n data bytes
            /\ PixelBytesInLog(log) =
                   ((first + 2)..(first + 1 + n)) \cup ((second + 2)..(second + 1 + n))
            /\ first + 1 + n < second
            /\ \A i \in first..(first + 1 + n) :
                   OnlySelected(log, i, "PIN_CS_MASTER", "PIN_CS_SLAVE")
            /\ \A i \in second..(second + 1 + n) :
                   OnlySelected(log, i, "PIN_CS_SLAVE", "PIN_CS_MASTER")
            /\ log[Len(log)].bus = bus
            /\ bus.PIN_CS_MASTER = "HIGH"
            /\ bus.PIN_CS_SLAVE = "HIGH"

\* a refresh that went through although every wait timed out
C37_Witness ==
    /\ call.op = "refresh"
    /\ \A k \in DOMAIN call.waits : call.waits[k] = "timeout"
    /\ Cardinality(PixelBytesInLog(call.log)) = (DISPLAY_WIDTH * DISPLAY_HEIGHT) \div 2
    /\ bus.PIN_CS_MASTER = "HIGH"
    /\ bus.PIN_CS_SLAVE = "HIGH"

(***************************************************************************)
(* Properties of the download buffer                                       *)
(***************************************************************************)
\* fetchAndDisplayImage has returned
FetchReturned == fetchResult # "none"

\* C38: the download buffer of fetchAndDisplayImage, once allocated, is freed
\* exactly once before the function returns, on the HTTP error, invalid
\* length, incomplete download and success paths alike; it is written by the
\* download and read by loadImageData only before it is freed, and the
\* refresh starts after the free
C38_DownloadBufferFreedOnce ==
    /\ imageBuffer = "none" => ~Did("free") /\ ~Did("http_get")
    /\ imageBuffer = "allocated" => pc = "download" /\ ~Did("free") /\ ~FetchReturned
    /\ imageBuffer = "freed" => Count("free") = 1
    /\ pc = "download" => imageBuffer = "allocated"
    /\ Did("alloc_failed") => imageBuffer = "none"
    /\ (FetchReturned /\ ~Did("alloc_failed")) =>
          /\ imageBuffer = "freed"
          /\ Count("free") = 1
          /\ \E e \in {"http_error", "bad_length", "incomplete", "load"} :
                 Precedes(e, "free")
    /\ Did("fetch_failed") /\ Did("free") => Precedes("free", "fetch_failed")
    /\ Did("load") => Count("load") = 1 /\ Precedes("load", "free")
    /\ Did("refresh") => Precedes("free", "refresh")
    /\ Did("commit") => Precedes("free", "commit")

\* an incomplete download: the buffer was freed and the function returned
\* false
C38_Witness ==
    /\ Did("incomplete")
    /\ imageBuffer = "freed"
    /\ fetchResult = "false"
    /\ 0 < bytesRead /\ bytesRead < contentLength

(***************************************************************************)
(* Properties of the web form and of the stored strings                    *)
(***************************************************************************)
\* the record c holds the four fields as the form submitted them
Submitted(c) ==
    /\ c.serverHost = call.host
    /\ c.serverPort = call.port
    /\ c.imageEndpoint = Slashed(call.endpoint)
    /\ c.sleepMinutes = call.sleep

\* C39: when handleSave answers 200 the stored configuration equals the
\* submitted host, port, endpoint (with its leading slash) and interval;
\* when a submitted value is not stored it answers 400 and the whole
\* configuration is as before
C39_SaveAnswersWhatItStored ==
    call.op = "handleSave" =>
        /\ call.status = 200 =>
              /\ Submitted(cfg)
              /\ nvs.written /\ Submitted(nvs.data)
        /\ ~Submitted(cfg) =>
              /\ call.status = 400
              /\ cfg = call.before.cfg
              /\ nvs = call.before.nvs

\* the strings and the port of the record c are within their bounds
StringsWithinBounds(c) ==
    /\ Len(c.serverHost) > 0 /\ Len(c.serverHost) < MAX_HOST_LENGTH
    /\ c.serverPort # 0
    /\ Len(c.imageEndpoint) > 0 /\ c.imageEndpoint[1] = "/"
    /\ Len(c.imageEndpoint) < MAX_ENDPOINT_LENGTH
\* the field f is as before the call, in memory and in the store
FieldKept(f) ==
    /\ cfg[f] = call.before.cfg[f]
    /\ nvs.data[f] = call.before.nvs.data[f]
HostRejected(host) == Len(host) = 0 \/ Len(host) >= MAX_HOST_LENGTH
EndpointRejected(endpoint) == Len(endpoint) = 0 \/ Len(endpoint) >= MAX_ENDPOINT_LENGTH

\* C40: after any sequence of calls of the store the host is non-empty and
\* shorter than MAX_HOST_LENGTH, the port is not zero, and the endpoint
\* begins with a slash and is shorter than MAX_ENDPOINT_LENGTH, in memory and
\* in the store; a value that a setter rejects leaves the field and the store
\* as they were, and one that setConfig rejects leaves its field as it was
C40_StoredStringsWithinBounds ==
    /\ StringsWithinBounds(cfg)
    /\ StringsWithinBounds(configBegin(nvs))
    /\ (call.op = "setServerHost" /\ HostRejected(call.host)) =>
          FieldKept("serverHost") /\ nvs = call.before.nvs
    /\ (call.op = "setServerPort" /\ call.port = 0) =>
          FieldKept("serverPort") /\ nvs = call.before.nvs
    /\ (call.op = "setImageEndpoint" /\ EndpointRejected(call.endpoint)) =>
          FieldKept("imageEndpoint") /\ nvs = call.before.nvs
    /\ call.op = "setConfig4" =>
          /\ HostRejected(call.host) => FieldKept("serverHost")
          /\ call.port = 0 => FieldKept("serverPort")
          /\ EndpointRejected(call.endpoint) => FieldKept("imageEndpoint")

====
